---- MODULE Spec2Model ----
(***************************************************************************)
(* Hybrid retrieval (dense + lexical + Reciprocal Rank Fusion) and the     *)
(* evaluation records of yenchangchen131/hybrid_rag.                        *)
(*                                                                         *)
(* Scores are exact rationals <<numerator, denominator>> in lowest terms   *)
(* with a positive denominator, so two scores are equal exactly when the   *)
(* pairs are equal.                                                        *)
(***************************************************************************)
EXTENDS Integers, Sequences, FiniteSets, TLC

----------------------------------------------------------------------------
(* Bounds of the model *)

NumDocs == 3          \* documents d1..dNumDocs (document ids are 1..NumDocs)
MaxLen == 3           \* longest result list handed to rrf_fusion
MaxK == 2             \* caller-supplied RRF k ranges over 0..MaxK (and 60, None)
MaxCalls == 2         \* calls of rrf_fusion on one pair of lists
StoreDocs == 2        \* documents in the store of the retrieval service
MaxTopK == 2          \* caller-supplied top_k ranges over 0..MaxTopK (and None)
EnvRrfK == 1          \* RRF_K when overridden from the environment
EnvInitialK == 1      \* INITIAL_RETRIEVAL_K when overridden from the environment
EnvTopK == 1          \* DEFAULT_TOP_K when overridden from the environment
EvalDocs == 2         \* documents that queries and responses of an evaluation name
MaxIds == 2           \* longest gold_doc_ids / retrieved_doc_ids list of a record
MaxGold == 2          \* longest gold_doc_ids list handed to a reciprocal-rank computation
MetricDocs == 2       \* documents that the records of a metrics batch name
RagDocs == 1          \* documents in the store behind a RAGService
IngestDocs == 2       \* documents of a corpus file, and largest batch_size
MaxDbCalls == 3       \* calls made on the connection singleton in one behaviour

(* Program constants: core/config.py *)
DefaultTopK == 5
InitialRetrievalK == 20
RrfK == 60

DocIds == 1..NumDocs

Injective(s) == \A i, j \in 1..Len(s) : s[i] = s[j] => i = j
(* Python's None where an int | None is expected: a value no int argument takes *)
None == 0 - 1

----------------------------------------------------------------------------
(* Settings: pydantic BaseSettings, defaults or values from the environment *)

DefaultSettings ==
    [DEFAULT_TOP_K |-> DefaultTopK,
     INITIAL_RETRIEVAL_K |-> InitialRetrievalK,
     RRF_K |-> RrfK]

EnvSettings ==
    [DEFAULT_TOP_K |-> EnvTopK,
     INITIAL_RETRIEVAL_K |-> EnvInitialK,
     RRF_K |-> EnvRrfK]

SettingsChoices == {DefaultSettings, EnvSettings}

----------------------------------------------------------------------------
(* Exact rational arithmetic for 1 / (k + rank + 1) and its sums *)

RECURSIVE GCD(_, _)
GCD(a, b) == IF b = 0 THEN a ELSE GCD(b, a % b)

Frac(n, d) == LET g == GCD(n, d) IN <<n \div g, d \div g>>

Zero == Frac(0, 1)

FracAdd(a, b) == Frac(a[1] * b[2] + b[1] * a[2], a[2] * b[2])

FracLess(a, b) == a[1] * b[2] < b[1] * a[2]

(* Python's `x or default` on an int | None *)
(* Variant: only None is replaced, 0 is kept *)
OrDefault_KeepsZero(x, default) == IF x = None THEN default ELSE x

OrDefault(x, default) == IF x = None THEN default ELSE IF x = 0 THEN default ELSE x

----------------------------------------------------------------------------
(* Python dict: insertion-ordered keys and their values *)

EmptyDict == [keys |-> <<>>, val |-> <<>>]

DictHas(d, key) == \E i \in 1..Len(d.keys) : d.keys[i] = key

DictIndex(d, key) == CHOOSE i \in 1..Len(d.keys) : d.keys[i] = key

DictGet(d, key, default) ==
    IF DictHas(d, key) THEN d.val[DictIndex(d, key)] ELSE default

DictSet(d, key, v) ==
    IF DictHas(d, key)
    THEN [d EXCEPT !.val[DictIndex(d, key)] = v]
    ELSE [keys |-> Append(d.keys, key), val |-> Append(d.val, v)]

(* sorted(keys, key=lambda x: score[x], reverse=True): a stable sort, so   *)
(* keys of equal score keep their order in the input.                      *)
RECURSIVE InsertDesc(_, _, _)
(* Variant: an unstable insertion, a key goes before the keys of equal score *)
RECURSIVE InsertDesc_Unstable(_, _, _)
InsertDesc_Unstable(sorted, x, d) ==
    IF sorted = <<>> THEN <<x>>
    ELSE IF ~FracLess(DictGet(d, x, Zero), DictGet(d, Head(sorted), Zero))
         THEN <<x>> \o sorted
         ELSE <<Head(sorted)>> \o InsertDesc_Unstable(Tail(sorted), x, d)

InsertDesc(sorted, x, d) ==
    IF sorted = <<>> THEN <<x>>
    ELSE IF FracLess(DictGet(d, Head(sorted), Zero), DictGet(d, x, Zero))
         THEN <<x>> \o sorted
         ELSE <<Head(sorted)>> \o InsertDesc(Tail(sorted), x, d)

RECURSIVE SortedDescFrom(_, _, _)
SortedDescFrom(keys, i, d) ==
    IF i = 0 THEN <<>>
    ELSE InsertDesc(SortedDescFrom(keys, i - 1, d), keys[i], d)

(* Variant: the keys in insertion order, the sort left out *)
SortedDesc_Unsorted(d) == d.keys

SortedDesc(d) == SortedDescFrom(d.keys, Len(d.keys), d)

----------------------------------------------------------------------------
(* RetrievalService.rrf_fusion *)

RetrievalResult(doc_id, content, score, retrieval_type, original_source) ==
    [doc_id |-> doc_id, content |-> content, score |-> score,
     retrieval_type |-> retrieval_type, original_source |-> original_source]

(* for rank, result in enumerate(vector_results) *)
RECURSIVE VectorLoop(_, _, _, _)
VectorLoop(vector_results, k, n, acc) ==
    IF n = 0 THEN acc
    ELSE LET prev == VectorLoop(vector_results, k, n - 1, acc)
             rank == n - 1
             result == vector_results[n]
             doc_id == result.doc_id
         IN [doc_map |-> DictSet(prev.doc_map, doc_id, result),
             fused_scores |->
                 DictSet(prev.fused_scores, doc_id,
                         FracAdd(DictGet(prev.fused_scores, doc_id, Zero),
                                 Frac(1, k + rank + 1)))]

RECURSIVE KeywordLoop(_, _, _, _)

(* Variant: the keyword entry replaces the entry already in doc_map *)
RECURSIVE KeywordLoop_Overwrite(_, _, _, _)
KeywordLoop_Overwrite(keyword_results, k, n, acc) ==
    IF n = 0 THEN acc
    ELSE LET prev == KeywordLoop_Overwrite(keyword_results, k, n - 1, acc)
             rank == n - 1
             result == keyword_results[n]
             doc_id == result.doc_id
         IN [doc_map |-> DictSet(prev.doc_map, doc_id, result),
             fused_scores |->
                 DictSet(prev.fused_scores, doc_id,
                         FracAdd(DictGet(prev.fused_scores, doc_id, Zero),
                                 Frac(1, k + rank + 1)))]

(* Variant: the keyword list counts its ranks from 1, the vector list from 0 *)
RECURSIVE KeywordLoop_RankFromOne(_, _, _, _)
KeywordLoop_RankFromOne(keyword_results, k, n, acc) ==
    IF n = 0 THEN acc
    ELSE LET prev == KeywordLoop_RankFromOne(keyword_results, k, n - 1, acc)
             rank == n
             result == keyword_results[n]
             doc_id == result.doc_id
         IN [doc_map |-> IF DictHas(prev.doc_map, doc_id)
                         THEN prev.doc_map
                         ELSE DictSet(prev.doc_map, doc_id, result),
             fused_scores |->
                 DictSet(prev.fused_scores, doc_id,
                         FracAdd(DictGet(prev.fused_scores, doc_id, Zero),
                                 Frac(1, k + rank + 1)))]

(* Variant: the keyword score replaces the accumulated score *)
RECURSIVE KeywordLoop_NoAccumulate(_, _, _, _)
KeywordLoop_NoAccumulate(keyword_results, k, n, acc) ==
    IF n = 0 THEN acc
    ELSE LET prev == KeywordLoop_NoAccumulate(keyword_results, k, n - 1, acc)
             rank == n - 1
             result == keyword_results[n]
             doc_id == result.doc_id
         IN [doc_map |-> IF DictHas(prev.doc_map, doc_id)
                         THEN prev.doc_map
                         ELSE DictSet(prev.doc_map, doc_id, result),
             fused_scores |->
                 DictSet(prev.fused_scores, doc_id, Frac(1, k + rank + 1))]

(* for rank, result in enumerate(keyword_results) *)
KeywordLoop(keyword_results, k, n, acc) ==
    IF n = 0 THEN acc
    ELSE LET prev == KeywordLoop(keyword_results, k, n - 1, acc)
             rank == n - 1
             result == keyword_results[n]
             doc_id == result.doc_id
         IN [doc_map |-> IF DictHas(prev.doc_map, doc_id)
                         THEN prev.doc_map
                         ELSE DictSet(prev.doc_map, doc_id, result),
             fused_scores |->
                 DictSet(prev.fused_scores, doc_id,
                         FracAdd(DictGet(prev.fused_scores, doc_id, Zero),
                                 Frac(1, k + rank + 1)))]

FusedEntry(doc_id, acc) ==
    LET original == DictGet(acc.doc_map, doc_id, None)
    IN RetrievalResult(original.doc_id, original.content,
                       DictGet(acc.fused_scores, doc_id, Zero),
                       "hybrid", original.original_source)

rrf_fusion(vector_results, keyword_results, k_arg, cfg) ==
    LET k == OrDefault(k_arg, cfg.RRF_K)
        start == [doc_map |-> EmptyDict, fused_scores |-> EmptyDict]
        afterVector == VectorLoop(vector_results, k, Len(vector_results), start)
        acc == KeywordLoop(keyword_results, k, Len(keyword_results), afterVector)
        sorted_ids == SortedDesc(acc.fused_scores)
    IN [i \in 1..Len(sorted_ids) |-> FusedEntry(sorted_ids[i], acc)]

----------------------------------------------------------------------------
(* Document store (MongoDB collection) and the embedding provider *)

(* DocumentInDB.embedding: list[float] | None *)
NullEmbedding == [null |-> TRUE, vec |-> <<>>]

Embedding(v) == [null |-> FALSE, vec |-> v]

EmbeddingVectors == {<<1, 0>>, <<1, 1>>}

Document(doc_id, embedding) ==
    [doc_id |-> doc_id, content |-> <<"content", doc_id>>,
     original_source |-> <<"source", doc_id>>, embedding |-> embedding]

(* The collection in natural order, one document per doc_id *)
Collections ==
    {[i \in 1..StoreDocs |-> Document(i, e[i])] :
        e \in [1..StoreDocs ->
                  {NullEmbedding} \cup {Embedding(v) : v \in EmbeddingVectors}]}

Queries == {"", "q1"}

(* The vector the provider returns for a query text *)
QueryVector(text) == <<1, 0>>

(* Variant: a zero vector stands in for the embedding that could not be made *)
get_embedding_ZeroVector(text, provider_ok) ==
    IF text = "" THEN <<0, 0>>
    ELSE IF provider_ok THEN QueryVector(text) ELSE <<0, 0>>

(* EmbeddingService.get_embedding: [] for an empty text or a provider error *)
get_embedding(text, provider_ok) ==
    IF text = "" THEN <<>>
    ELSE IF provider_ok THEN QueryVector(text) ELSE <<>>

(* DocumentRepository.get_all_with_embeddings: find({"embedding": {"$ne": None}}) *)
get_all_with_embeddings(coll) == SelectSeq(coll, LAMBDA d : ~d.embedding.null)

(* DocumentRepository.text_search: the store's ranking cut by .limit(limit); *)
(* limit(0) is no limit                                                      *)
text_search(ranking, limit) ==
    IF limit = 0 \/ limit >= Len(ranking) THEN ranking ELSE SubSeq(ranking, 1, limit)

(* What the store's text search can answer to a request with this limit:   *)
(* matching documents in relevance order, each with its textScore, at most  *)
(* `limit` of them; an empty search string matches nothing                  *)
TextRankings(coll, query, limit) ==
    LET longest == IF query = "" THEN 0
                   ELSE IF limit = 0 \/ limit >= Len(coll) THEN Len(coll)
                   ELSE limit
    IN {[i \in 1..Len(ids) |->
           [doc_id |-> coll[ids[i]].doc_id, content |-> coll[ids[i]].content,
            original_source |-> coll[ids[i]].original_source,
            score |-> Frac(Len(ids) + 1 - i, 1)]] :
        ids \in {s \in UNION {[1..n -> 1..Len(coll)] : n \in 0..longest} :
                    Injective(s)}}

----------------------------------------------------------------------------
(* RetrievalService: vector index *)

NullArray == [null |-> TRUE, rows |-> <<>>]

(* RetrievalService.__init__ *)
EmptyIndex == [docs |-> <<>>, embeddings |-> NullArray, index_loaded |-> FALSE]

(* RetrievalService.load_vector_index *)
load_vector_index(index, coll) ==
    IF index.index_loaded THEN index
    ELSE LET kept == SelectSeq(get_all_with_embeddings(coll),
                               LAMBDA d : Len(d.embedding.vec) > 0)
         IN [docs |-> kept,
             embeddings |->
                 IF Len(kept) > 0
                 THEN [null |-> FALSE,
                       rows |-> [i \in 1..Len(kept) |-> kept[i].embedding.vec]]
                 ELSE NullArray,
             index_loaded |-> TRUE]

Dot(a, b) == a[1] * b[1] + a[2] * b[2]

Sign(x) == IF x < 0 THEN 0 - 1 ELSE IF x > 0 THEN 1 ELSE 0

(* sklearn cosine_similarity of the query with one row.  The cosine c is    *)
(* held as the exact rational sign(c) * c * c, which orders and separates   *)
(* cosines as c does; a zero vector has similarity 0.                       *)
cosine_similarity(q, row) ==
    IF Dot(q, q) = 0 \/ Dot(row, row) = 0 THEN Zero
    ELSE Frac(Sign(Dot(q, row)) * Dot(q, row) * Dot(q, row), Dot(q, q) * Dot(row, row))

IndexOrders(n) == {p \in [1..n -> 1..n] : Injective(p)}

(* numpy argsort with the default kind (quicksort, not stable): an ascending *)
(* order of the indices, equal values in any order                           *)
argsort(similarities) ==
    {p \in IndexOrders(Len(similarities)) :
        \A i, j \in 1..Len(similarities) :
            i < j => ~FracLess(similarities[p[j]], similarities[p[i]])}

Reverse(s) == [i \in 1..Len(s) |-> s[Len(s) + 1 - i]]

(* Variant: order[-top_k - 1:][::-1], one index too many *)
TopIndices_OneMore(order, top_k) ==
    LET n == Len(order)
        first == IF top_k + 1 >= n THEN 1 ELSE n - top_k
    IN Reverse(SubSeq(order, first, n))

(* order[-top_k:][::-1] *)
TopIndices(order, top_k) ==
    LET n == Len(order)
        first == IF top_k = 0 \/ top_k >= n THEN 1 ELSE n - top_k + 1
    IN Reverse(SubSeq(order, first, n))

(* RetrievalService.vector_search once the index is loaded; `order` is the  *)
(* outcome of argsort                                                       *)
vector_search(index, query_embedding, order, top_k) ==
    IF index.embeddings.null \/ Len(index.embeddings.rows) = 0 THEN <<>>
    ELSE IF query_embedding = <<>> THEN <<>>
    ELSE LET similarities ==
                 [i \in 1..Len(index.embeddings.rows) |->
                     cosine_similarity(query_embedding, index.embeddings.rows[i])]
             top_indices == TopIndices(order, top_k)
         IN [n \in 1..Len(top_indices) |->
                LET doc == index.docs[top_indices[n]]
                IN RetrievalResult(doc.doc_id, doc.content,
                                   similarities[top_indices[n]], "vector",
                                   doc.original_source)]

Similarities(index, query_embedding) ==
    IF index.embeddings.null \/ query_embedding = <<>> THEN <<>>
    ELSE [i \in 1..Len(index.embeddings.rows) |->
             cosine_similarity(query_embedding, index.embeddings.rows[i])]

(* RetrievalService.keyword_search *)
keyword_search(ranking, top_k) ==
    LET docs == text_search(ranking, top_k)
    IN [i \in 1..Len(docs) |->
           RetrievalResult(docs[i].doc_id, docs[i].content, docs[i].score,
                           "keyword", docs[i].original_source)]

Take(s, n) == IF n >= Len(s) THEN s ELSE SubSeq(s, 1, n)

Modes == {"vector", "keyword", "hybrid"}

(* Variant: hybrid mode asks both searches for top_k results *)
search_HybridAsksTopK(index, query_embedding, order, ranking, top_k_arg, mode, cfg) ==
    LET top_k == OrDefault(top_k_arg, cfg.DEFAULT_TOP_K)
    IN IF mode = "vector"
       THEN LET v == vector_search(index, query_embedding, order, top_k)
            IN [vector_top_k |-> top_k, keyword_top_k |-> None,
                vector_results |-> v, keyword_results |-> <<>>, results |-> v]
       ELSE IF mode = "keyword"
       THEN LET kw == keyword_search(ranking, top_k)
            IN [vector_top_k |-> None, keyword_top_k |-> top_k,
                vector_results |-> <<>>, keyword_results |-> kw, results |-> kw]
       ELSE LET v == vector_search(index, query_embedding, order, top_k)
                kw == keyword_search(ranking, top_k)
                fused == rrf_fusion(v, kw, None, cfg)
            IN [vector_top_k |-> top_k, keyword_top_k |-> top_k,
                vector_results |-> v, keyword_results |-> kw,
                results |-> Take(fused, top_k)]

(* RetrievalService.search, given the loaded index and what the provider,   *)
(* argsort and the store answer during the call.  The record holds the      *)
(* arguments handed to the two searches, their results and the value        *)
(* returned.                                                                *)
search(index, query_embedding, order, ranking, top_k_arg, mode, cfg) ==
    LET top_k == OrDefault(top_k_arg, cfg.DEFAULT_TOP_K)
        initial_k == cfg.INITIAL_RETRIEVAL_K
    IN IF mode = "vector"
       THEN LET v == vector_search(index, query_embedding, order, top_k)
            IN [vector_top_k |-> top_k, keyword_top_k |-> None,
                vector_results |-> v, keyword_results |-> <<>>, results |-> v]
       ELSE IF mode = "keyword"
       THEN LET kw == keyword_search(ranking, top_k)
            IN [vector_top_k |-> None, keyword_top_k |-> top_k,
                vector_results |-> <<>>, keyword_results |-> kw, results |-> kw]
       ELSE LET v == vector_search(index, query_embedding, order, initial_k)
                kw == keyword_search(ranking, initial_k)
                fused == rrf_fusion(v, kw, None, cfg)
            IN [vector_top_k |-> initial_k, keyword_top_k |-> initial_k,
                vector_results |-> v, keyword_results |-> kw,
                results |-> Take(fused, top_k)]

----------------------------------------------------------------------------
(* Evaluation records (app.py).  A record is a dict: a function from the    *)
(* keys it holds to their values.                                           *)

ToSet(list) == {list[i] : i \in 1..Len(list)}

Has(r, key) == key \in DOMAIN r

(* r[key] = value, adding the key when the dict does not hold it *)
SetKey(r, key, value) == (key :> value) @@ r

(* Variant: every retrieved document counts as a hit *)
HitIds_AllRetrieved(gold_doc_ids, retrieved_doc_ids) == ToSet(retrieved_doc_ids)

(* set(gold_doc_ids).intersection(set(retrieved_doc_ids)) *)
HitIds(gold_doc_ids, retrieved_doc_ids) ==
    ToSet(gold_doc_ids) \cap ToSet(retrieved_doc_ids)

(* run_evaluation: the record of one query and the response to it (the     *)
(* question and answer texts, contexts, partial_hit and response_time_ms   *)
(* are left out)                                                            *)
EvaluationRecord(question_id, gold_doc_ids, retrieved_doc_ids) ==
    LET hit_ids == HitIds(gold_doc_ids, retrieved_doc_ids)
    IN [question_id |-> question_id,
        gold_doc_ids |-> gold_doc_ids,
        retrieved_doc_ids |-> retrieved_doc_ids,
        hit_count |-> Cardinality(hit_ids),
        gold_count |-> Cardinality(ToSet(gold_doc_ids)),
        is_hit |-> Cardinality(hit_ids) > 0]

(* run_all_queries: the record the batch runner writes, no derived field *)
BatchRecord(question_id, gold_doc_ids, retrieved_doc_ids) ==
    [question_id |-> question_id,
     gold_doc_ids |-> gold_doc_ids,
     retrieved_doc_ids |-> retrieved_doc_ids]

(* calculate_metrics, the pre-processing of one record: a derived field is  *)
(* computed only when the record does not hold it                           *)
DeriveMissing(r) ==
    LET hit_ids == HitIds(r.gold_doc_ids, r.retrieved_doc_ids)
        r1 == IF Has(r, "hit_count") THEN r
              ELSE SetKey(r, "hit_count", Cardinality(hit_ids))
        r2 == IF Has(r1, "gold_count") THEN r1
              ELSE SetKey(r1, "gold_count", Cardinality(ToSet(r.gold_doc_ids)))
    IN IF Has(r2, "is_hit") THEN r2
       ELSE SetKey(r2, "is_hit", Cardinality(hit_ids) > 0)

----------------------------------------------------------------------------
(* Reciprocal rank (scripts/calculate_metrics.py and app.py) *)

(* x / n for a count n > 0 *)
FracDiv(x, n) == Frac(x[1], x[2] * n)

(* r.get(key, default) *)
Get(r, key, default) == IF key \in DOMAIN r THEN r[key] ELSE default

(* Variant: the rank of the last occurrence *)
FirstRank_LastOccurrence(doc_id, retrieved_ids) ==
    LET ranks == {rank \in 1..Len(retrieved_ids) : retrieved_ids[rank] = doc_id}
    IN IF ranks = {} THEN 0
       ELSE CHOOSE rank \in ranks : \A other \in ranks : rank >= other

(* for rank, doc_id in enumerate(retrieved_ids, start=1): if doc_id ==      *)
(* gold_id: ... break -- the rank at which the loop stops, 0 when it runs   *)
(* to the end                                                               *)
FirstRank(doc_id, retrieved_ids) ==
    LET ranks == {rank \in 1..Len(retrieved_ids) : retrieved_ids[rank] = doc_id}
    IN IF ranks = {} THEN 0
       ELSE CHOOSE rank \in ranks : \A other \in ranks : rank <= other

(* Variant: a gold document that was not retrieved counts as rank 1 *)
RECURSIVE RRSum_MissCountsOne(_, _)
RRSum_MissCountsOne(gold_ids, retrieved_ids) ==
    IF gold_ids = {} THEN Zero
    ELSE LET gold_id == CHOOSE x \in gold_ids : TRUE
             rank == FirstRank(gold_id, retrieved_ids)
         IN FracAdd(IF rank = 0 THEN Frac(1, 1) ELSE Frac(1, rank),
                    RRSum_MissCountsOne(gold_ids \ {gold_id}, retrieved_ids))

(* rr_sum after the loop over the set gold_ids *)
RECURSIVE RRSum(_, _)
RRSum(gold_ids, retrieved_ids) ==
    IF gold_ids = {} THEN Zero
    ELSE LET gold_id == CHOOSE x \in gold_ids : TRUE
             rank == FirstRank(gold_id, retrieved_ids)
         IN FracAdd(IF rank = 0 THEN Zero ELSE Frac(1, rank),
                    RRSum(gold_ids \ {gold_id}, retrieved_ids))

(* scripts/calculate_metrics.calculate_reciprocal_rank *)
calculate_reciprocal_rank(gold_ids, retrieved_ids) ==
    IF gold_ids = {} THEN Zero
    ELSE FracDiv(RRSum(gold_ids, retrieved_ids), Cardinality(gold_ids))

(* total_rr of app.calculate_metrics.calc_mrr after the first n records *)
RECURSIVE TotalRR(_, _)
TotalRR(records, n) ==
    IF n = 0 THEN Zero
    ELSE LET r == records[n]
             gold_ids == ToSet(Get(r, "gold_doc_ids", <<>>))
             retrieved_ids == Get(r, "retrieved_doc_ids", <<>>)
             rr_sum == RRSum(gold_ids, retrieved_ids)
         IN FracAdd(TotalRR(records, n - 1),
                    IF gold_ids # {} THEN FracDiv(rr_sum, Cardinality(gold_ids))
                    ELSE Zero)

(* Variant: the sum of the reciprocal ranks, not their mean *)
calc_mrr_Sum(records) == TotalRR(records, Len(records))

(* app.calculate_metrics.calc_mrr (and the calc_mrr of calculate_grouped_metrics) *)
calc_mrr(records) ==
    IF Len(records) > 0 THEN FracDiv(TotalRR(records, Len(records)), Len(records))
    ELSE Zero

----------------------------------------------------------------------------
(* Aggregate metrics (app.py) *)

(* sum(...) over a list of integers *)
RECURSIVE SumSeq(_, _)
SumSeq(values, n) == IF n = 0 THEN 0 ELSE SumSeq(values, n - 1) + values[n]

Sum(values) == SumSeq(values, Len(values))

(* [f(r) for r in records] for an integer field read with r.get(key, default) *)
FieldValues(records, key, default) ==
    [i \in 1..Len(records) |-> Get(records[i], key, default)]

(* sum(1 for r in records if r.get(key, False)) *)
CountTrue(records, key) ==
    Cardinality({i \in 1..Len(records) : Get(records[i], key, FALSE)})

(* None where a rate is expected *)
NoneRate == <<>>

(* calculate_metrics: the records after the pre-processing loop *)
Preprocessed(records) == [i \in 1..Len(records) |-> DeriveMissing(records[i])]

(* pass_rate of calculate_metrics *)
PassRate(records) ==
    IF \E i \in 1..Len(records) : Has(records[i], "is_pass")
    THEN Frac(CountTrue(records, "is_pass"), Len(records))
    ELSE NoneRate

(* Variant: the mean of the per-record hit fractions *)
RECURSIVE FractionSum(_, _)
FractionSum(records, n) ==
    IF n = 0 THEN Zero
    ELSE FracAdd(FractionSum(records, n - 1),
                 IF Get(records[n], "gold_count", 0) > 0
                 THEN Frac(Get(records[n], "hit_count", 0),
                           Get(records[n], "gold_count", 0))
                 ELSE Zero)

PartialHitRate_MacroAverage(records) ==
    IF Sum(FieldValues(records, "gold_count", 0)) > 0
    THEN FracDiv(FractionSum(records, Len(records)), Len(records))
    ELSE Zero

(* total_hit_docs / total_gold_docs if total_gold_docs > 0 else 0 *)
PartialHitRate(records) ==
    LET total_gold_docs == Sum(FieldValues(records, "gold_count", 0))
        total_hit_docs == Sum(FieldValues(records, "hit_count", 0))
    IN IF total_gold_docs > 0 THEN Frac(total_hit_docs, total_gold_docs) ELSE Zero

(* app.calculate_metrics: the value returned, {} for an empty batch *)
calculate_metrics(records) ==
    IF Len(records) = 0 THEN <<>>
    ELSE LET rs == Preprocessed(records)
             total == Len(rs)
             total_hits == CountTrue(rs, "is_hit")
             single_gold == SelectSeq(rs, LAMBDA r : Get(r, "gold_count", 0) = 1)
             has_llm_eval == \E i \in 1..Len(rs) : Has(rs[i], "is_pass")
         IN [total_questions |-> total,
             hit_rate |-> Frac(total_hits, total),
             single_gold_hit_rate |->
                IF Len(single_gold) > 0
                THEN Frac(CountTrue(single_gold, "is_hit"), Len(single_gold))
                ELSE Zero,
             partial_hit_rate |-> PartialHitRate(rs),
             mrr |-> calc_mrr(rs),
             avg_response_time_ms |->
                Frac(Sum(FieldValues(rs, "response_time_ms", 0)), total),
             llm_passed |-> IF has_llm_eval THEN CountTrue(rs, "is_pass") ELSE None,
             llm_pass_rate |-> PassRate(rs)]

(* calculate_grouped_metrics: the pre-processing loop, which assigns the   *)
(* three derived fields whether or not the record holds them               *)
Recomputed(records) ==
    [i \in 1..Len(records) |->
        LET r == records[i]
            hit_ids == HitIds(Get(r, "gold_doc_ids", <<>>),
                              Get(r, "retrieved_doc_ids", <<>>))
        IN SetKey(SetKey(SetKey(r, "hit_count", Cardinality(hit_ids)),
                         "gold_count",
                         Cardinality(ToSet(Get(r, "gold_doc_ids", <<>>)))),
                  "is_hit", Cardinality(hit_ids) > 0)]

(* calculate_grouped_metrics.calc_group *)
calc_group(subset) ==
    LET gold_docs == Sum(FieldValues(subset, "gold_count", 0))
        hit_docs == Sum(FieldValues(subset, "hit_count", 0))
        single_gold == SelectSeq(subset, LAMBDA r : r.gold_count = 1)
    IN [total |-> Len(subset),
        gold_docs |-> gold_docs,
        hit_docs |-> hit_docs,
        partial_hit_rate |-> PartialHitRate(subset),
        hit_rate |-> IF Len(single_gold) > 0
                     THEN Frac(CountTrue(single_gold, "is_hit"), Len(single_gold))
                     ELSE NoneRate,
        mrr |-> calc_mrr(subset)]

(* Variant: a record without the category is left out of every group *)
GroupBy_DropUnset(records, key) ==
    LET keys == {records[i][key] : i \in {j \in 1..Len(records) : Has(records[j], key)}}
    IN [k \in keys |-> SelectSeq(records, LAMBDA r : Has(r, key) /\ r[key] = k)]

(* by_source / by_type: defaultdict(list) filled with                      *)
(* by[r.get(key, "unknown")].append(r)                                      *)
GroupBy(records, key) ==
    LET keys == {Get(records[i], key, "unknown") : i \in 1..Len(records)}
    IN [k \in keys |-> SelectSeq(records, LAMBDA r : Get(r, key, "unknown") = k)]

(* app.calculate_grouped_metrics: the value returned *)
calculate_grouped_metrics(records) ==
    LET rs == Recomputed(records)
        by_source == GroupBy(rs, "source_dataset")
        by_type == GroupBy(rs, "question_type")
    IN [by_source |-> [k \in DOMAIN by_source |-> calc_group(by_source[k])],
        by_type |-> [k \in DOMAIN by_type |-> calc_group(by_type[k])],
        total |-> calc_group(rs)]

----------------------------------------------------------------------------
(* The metrics script (scripts/calculate_metrics.py) *)

(* round(x, 4) for x >= 0.  A tie is a binary fraction, exact as a float,   *)
(* and goes to the even neighbour.                                          *)
Round4(x) ==
    LET scaled == x[1] * 10000
        below == scaled \div x[2]
        rest == scaled % x[2]
    IN Frac(IF 2 * rest < x[2] THEN below
            ELSE IF 2 * rest > x[2] THEN below + 1
            ELSE IF below % 2 = 0 THEN below ELSE below + 1,
            10000)

(* Sum of calculate_reciprocal_rank over the first n records *)
RECURSIVE RRTotal(_, _)
RRTotal(records, n) ==
    IF n = 0 THEN Zero
    ELSE FracAdd(RRTotal(records, n - 1),
                 calculate_reciprocal_rank(ToSet(records[n].gold_doc_ids),
                                           records[n].retrieved_doc_ids))

(* Counters of one group (or of the whole batch) after the loop *)
GroupCounters(subset) ==
    LET hit_count(r) == Cardinality(HitIds(r.gold_doc_ids, r.retrieved_doc_ids))
        gold_count(r) == Cardinality(ToSet(r.gold_doc_ids))
        single == SelectSeq(subset, LAMBDA r : gold_count(r) = 1)
    IN [total |-> Len(subset),
        gold_docs |-> Sum([i \in 1..Len(subset) |-> gold_count(subset[i])]),
        hit_docs |-> Sum([i \in 1..Len(subset) |-> hit_count(subset[i])]),
        rr_sum |-> RRTotal(subset, Len(subset)),
        single_gold_total |-> Len(single),
        single_gold_hits |->
           Cardinality({i \in 1..Len(single) : hit_count(single[i]) > 0})]

(* calculate_metrics.calc_group_stats *)
calc_group_stats(group) ==
    LET stats ==
          [total_questions |-> group.total,
           total_gold_docs |-> group.gold_docs,
           total_hit_docs |-> group.hit_docs,
           partial_hit_rate |->
              IF group.gold_docs > 0
              THEN Round4(Frac(group.hit_docs, group.gold_docs)) ELSE Zero,
           mrr |-> IF group.total > 0
                   THEN Round4(FracDiv(group.rr_sum, group.total)) ELSE Zero]
    IN IF group.single_gold_total > 0
       THEN [single_gold_questions |-> group.single_gold_total,
             single_gold_hit_rate |->
                Round4(Frac(group.single_gold_hits, group.single_gold_total))]
            @@ stats
       ELSE stats

(* scripts/calculate_metrics.calculate_metrics: the value returned (of a    *)
(* detailed result, the fields computed here)                               *)
script_calculate_metrics(records) ==
    LET whole == GroupCounters(records)
        by_question_type == GroupBy(records, "question_type")
        by_source == GroupBy(records, "source_dataset")
    IN [summary |->
          [total_questions |-> whole.total,
           single_gold_questions |-> whole.single_gold_total,
           single_gold_hit_rate |->
              IF whole.single_gold_total > 0
              THEN Round4(Frac(whole.single_gold_hits, whole.single_gold_total))
              ELSE NoneRate,
           multi_gold_questions |-> whole.total - whole.single_gold_total,
           total_gold_docs |-> whole.gold_docs,
           total_hit_docs |-> whole.hit_docs,
           partial_hit_rate |->
              IF whole.gold_docs > 0
              THEN Round4(Frac(whole.hit_docs, whole.gold_docs)) ELSE Zero,
           mrr |-> Round4(IF whole.total > 0
                          THEN FracDiv(whole.rr_sum, whole.total) ELSE Zero)],
        by_question_type |->
          [k \in DOMAIN by_question_type |->
              calc_group_stats(GroupCounters(by_question_type[k]))],
        by_source |->
          [k \in DOMAIN by_source |-> calc_group_stats(GroupCounters(by_source[k]))],
        detailed_results |->
          [i \in 1..Len(records) |->
              LET r == records[i]
                  single == GroupCounters(<<r>>)
              IN [question_id |-> r.question_id,
                  question_type |-> Get(r, "question_type", "unknown"),
                  source_dataset |-> Get(r, "source_dataset", "unknown"),
                  gold_count |-> single.gold_docs,
                  partial_hit_rate |->
                     Round4(IF single.gold_docs > 0
                            THEN Frac(single.hit_docs, single.gold_docs) ELSE Zero),
                  reciprocal_rank |-> Round4(single.rr_sum)]]]

----------------------------------------------------------------------------
(* State *)

VARIABLES
    settings,          \* core.config.settings
    vector_results,    \* rrf_fusion argument / result of the dense search
    keyword_results,   \* rrf_fusion argument / result of the lexical search
    k_arg,             \* rrf_fusion argument k (None when omitted)
    fused_results,     \* value returned by the latest rrf_fusion call
    prev_fused,        \* value returned by the call before it
    calls,             \* number of rrf_fusion calls made on these arguments
    collection,        \* documents of the store, in natural order
    index,             \* RetrievalService._docs, _embeddings, _index_loaded
    call,              \* the RetrievalService.search call in hand and its outcome
    results,           \* the evaluation records of the session (one mode)
    arrived,           \* the records as they were handed to calculate_metrics
    phase,             \* where the records come from and whether metrics ran
    rank_call,         \* a reciprocal-rank computation: its arguments and values
    metrics,           \* value returned by app.calculate_metrics
    grouped,           \* value returned by app.calculate_grouped_metrics
    report,            \* value returned by scripts/calculate_metrics.calculate_metrics
    evaluated,         \* value returned by evaluate_answers.evaluate_all
    eval_file,         \* data/answer_evaluation_{mode}.json
    result_file,       \* data/rag_results_{mode}.json
    replies,           \* the latest judgment pass and what the provider did in it
    rag,               \* RAGService._vector_index_loaded
    rag_call,          \* the latest RAGService call and what it returned
    loads,             \* calls of get_all_with_embeddings that returned documents
    modes_seen,        \* modes of the RAGService calls made so far
    threads,           \* the threads inside load_vector_index / vector_search
    ingest,            \* the indexes of the store, the latest ingest_corpus and its value
    db,                \* MongoDBClient: _client, _db and the calls made on it
    run                \* an evaluation run: its queries, its faults, its outcome

fusionVars == <<vector_results, keyword_results, k_arg, fused_results,
                prev_fused, calls>>

serviceVars == <<collection, index, call>>

evalVars == <<results, arrived, phase>>

metricVars == <<rank_call, metrics, grouped, report>>

judgeVars == <<evaluated, eval_file, result_file, replies>>

ragVars == <<rag, rag_call, loads, modes_seen>>

extraVars == <<threads, ingest, db, run>>

laterVars == <<metricVars, judgeVars, ragVars, extraVars>>

vars == <<settings, fusionVars, serviceVars, evalVars, laterVars>>

(* A file that does not exist *)
NoFile == [exists |-> FALSE]

(* No metrics computed, no judgment made, a RAGService just constructed *)
MetricsIdle ==
    /\ rank_call = <<>>
    /\ metrics = <<>>
    /\ grouped = <<>>
    /\ report = <<>>

JudgeIdle ==
    /\ evaluated = <<>>
    /\ eval_file = NoFile
    /\ result_file = NoFile
    /\ replies = <<>>

RagIdle ==
    /\ rag = [vector_index_loaded |-> FALSE]
    /\ rag_call = [op |-> "none", mode |-> "", outcome |-> "none"]
    /\ loads = 0
    /\ modes_seen = {}

ExtraIdle ==
    /\ threads = <<>>
    /\ ingest = <<>>
    /\ db = <<>>
    /\ run = <<>>

(* No search call in hand *)
NoCall ==
    [mode |-> "", top_k |-> None, query |-> "", provider_ok |-> TRUE,
     query_embedding |-> <<>>, outcome |-> "none", vector_top_k |-> None,
     keyword_top_k |-> None, results |-> <<>>]

----------------------------------------------------------------------------
(* Inputs of rrf_fusion: ranked lists as vector_search and keyword_search   *)
(* build them, one entry per document (doc_id is a unique key of the store) *)

IdLists == {s \in UNION {[1..n -> DocIds] : n \in 0..MaxLen} : Injective(s)}

(* Content and source carry the list the entry came from, so the fused      *)
(* entry shows which input entry it was copied from.                        *)
ResultList(ids, type) ==
    [i \in 1..Len(ids) |->
        RetrievalResult(ids[i], <<type, "content", ids[i]>>,
                        Frac(Len(ids) + 1 - i, 1), type,
                        <<type, "source", ids[i]>>)]

KArgs == {None} \cup (0..MaxK) \cup {RrfK}

InitFusion ==
    /\ settings \in SettingsChoices
    /\ \E ids \in IdLists : vector_results = ResultList(ids, "vector")
    /\ \E ids \in IdLists : keyword_results = ResultList(ids, "keyword")
    /\ k_arg \in KArgs
    /\ fused_results = <<>>
    /\ prev_fused = <<>>
    /\ calls = 0
    /\ collection = <<>>
    /\ index = EmptyIndex
    /\ call = NoCall
    /\ results = <<>>
    /\ arrived = <<>>
    /\ phase = "start"
    /\ MetricsIdle
    /\ JudgeIdle
    /\ RagIdle
    /\ ExtraIdle

CallRrfFusion ==
    /\ calls < MaxCalls
    /\ fused_results' = rrf_fusion(vector_results, keyword_results, k_arg, settings)
    /\ prev_fused' = fused_results
    /\ calls' = calls + 1
    /\ UNCHANGED <<settings, vector_results, keyword_results, k_arg, serviceVars, evalVars, laterVars>>

NextFusion == CallRrfFusion

SpecFusion == InitFusion /\ [][NextFusion]_vars

----------------------------------------------------------------------------
(* The retrieval service over a store *)

TopKArgs == {None} \cup (0..MaxTopK)

InitSearch ==
    /\ settings \in SettingsChoices
    /\ collection \in Collections
    /\ index = EmptyIndex
    /\ call = NoCall
    /\ vector_results = <<>>
    /\ keyword_results = <<>>
    /\ k_arg = None
    /\ fused_results = <<>>
    /\ prev_fused = <<>>
    /\ calls = 0
    /\ results = <<>>
    /\ arrived = <<>>
    /\ phase = "start"
    /\ MetricsIdle
    /\ JudgeIdle
    /\ RagIdle
    /\ ExtraIdle

(* RAGService.initialize / a direct load_vector_index call *)
LoadVectorIndex ==
    /\ call.outcome = "none"
    /\ ~index.index_loaded
    /\ index' = load_vector_index(index, collection)
    /\ UNCHANGED <<settings, fusionVars, collection, call, evalVars, laterVars>>

(* What the embedding provider does with the query of a call *)
EmbedOutcomes == {<<"", TRUE>>, <<"q1", TRUE>>, <<"q1", FALSE>>}

(* search in vector mode: loads the index on first use, embeds the query,   *)
(* ranks the index                                                          *)
SearchVector ==
    /\ call.outcome = "none"
    /\ \E e \in EmbedOutcomes :
         LET loaded == load_vector_index(index, collection)
             query_embedding == get_embedding(e[1], e[2])
         IN \E order \in argsort(Similarities(loaded, query_embedding)) :
            \E top_k \in TopKArgs :
              LET r == search(loaded, query_embedding, order, <<>>, top_k,
                              "vector", settings)
              IN /\ index' = loaded
                 /\ vector_results' = r.vector_results
                 /\ keyword_results' = r.keyword_results
                 /\ call' = [mode |-> "vector", top_k |-> top_k, query |-> e[1],
                             provider_ok |-> e[2],
                             query_embedding |-> query_embedding,
                             outcome |-> "returned",
                             vector_top_k |-> r.vector_top_k,
                             keyword_top_k |-> r.keyword_top_k,
                             results |-> r.results]
    /\ UNCHANGED <<settings, collection, k_arg, fused_results, prev_fused, calls, evalVars, laterVars>>

(* search in keyword mode: the index is not touched, no embedding is asked  *)
SearchKeyword ==
    /\ call.outcome = "none"
    /\ \E top_k \in TopKArgs, query \in Queries :
       \E ranking \in TextRankings(collection, query,
                                   OrDefault(top_k, settings.DEFAULT_TOP_K)) :
         LET r == search(index, <<>>, <<>>, ranking, top_k, "keyword", settings)
         IN /\ vector_results' = r.vector_results
            /\ keyword_results' = r.keyword_results
            /\ call' = [mode |-> "keyword", top_k |-> top_k, query |-> query,
                        provider_ok |-> TRUE,
                        query_embedding |-> <<>>,
                        outcome |-> "returned",
                        vector_top_k |-> r.vector_top_k,
                        keyword_top_k |-> r.keyword_top_k,
                        results |-> r.results]
    /\ UNCHANGED <<settings, collection, index, k_arg, fused_results, prev_fused, calls, evalVars, laterVars>>

(* search in hybrid mode: dense search, lexical search, fusion, truncation  *)
SearchHybrid ==
    /\ call.outcome = "none"
    /\ \E e \in EmbedOutcomes :
         LET loaded == load_vector_index(index, collection)
             query_embedding == get_embedding(e[1], e[2])
         IN \E order \in argsort(Similarities(loaded, query_embedding)) :
            \E top_k \in TopKArgs,
               ranking \in TextRankings(collection, e[1],
                                        settings.INITIAL_RETRIEVAL_K) :
              LET r == search(loaded, query_embedding, order, ranking, top_k,
                              "hybrid", settings)
              IN /\ index' = loaded
                 /\ vector_results' = r.vector_results
                 /\ keyword_results' = r.keyword_results
                 /\ call' = [mode |-> "hybrid", top_k |-> top_k, query |-> e[1],
                             provider_ok |-> e[2],
                             query_embedding |-> query_embedding,
                             outcome |-> "returned",
                             vector_top_k |-> r.vector_top_k,
                             keyword_top_k |-> r.keyword_top_k,
                             results |-> r.results]
    /\ UNCHANGED <<settings, collection, k_arg, fused_results, prev_fused, calls, evalVars, laterVars>>

(* The text index is missing: find({"$text": ...}) raises in keyword_search *)
(* and nothing catches it.  In hybrid mode the dense search has run first.  *)
SearchRaises ==
    /\ call.outcome = "none"
    /\ \E mode \in {"keyword", "hybrid"}, top_k \in TopKArgs, query \in Queries :
         /\ index' = IF mode = "hybrid" THEN load_vector_index(index, collection)
                     ELSE index
         /\ call' = [NoCall EXCEPT !.mode = mode, !.top_k = top_k, !.query = query,
                                   !.outcome = "raised"]
    /\ UNCHANGED <<settings, fusionVars, collection, evalVars, laterVars>>

(* The caller takes the result; the service is ready for the next query *)
NextQuery ==
    /\ call.outcome # "none"
    /\ call' = NoCall
    /\ vector_results' = <<>>
    /\ keyword_results' = <<>>
    /\ UNCHANGED <<settings, collection, index, k_arg, fused_results, prev_fused, calls, evalVars, laterVars>>

NextSearch ==
    \/ LoadVectorIndex
    \/ SearchVector
    \/ SearchKeyword
    \/ SearchHybrid
    \/ SearchRaises
    \/ NextQuery

SpecSearch == InitSearch /\ [][NextSearch]_vars

----------------------------------------------------------------------------
(* Evaluation runs and the metrics pre-processing *)

(* The queries of an evaluation run and the one record of a results file *)
QuestionIds == <<"qa", "qb">>

FileQuestionIds == <<"qa">>

EvalDocIds == 1..EvalDocs

(* gold_doc_ids of a query: a non-empty list of document ids *)
GoldLists ==
    {s \in UNION {[1..n -> EvalDocIds] : n \in 1..MaxIds} : Injective(s)}

(* retrieved_doc_ids of a response: the ids of a search result, in rank order *)
RetrievedLists ==
    {s \in UNION {[1..n -> EvalDocIds] : n \in 0..MaxIds} : Injective(s)}

(* Derived fields a results file can hold for a record: any of the three,   *)
(* with whatever value its writer gave it                                   *)
StoredDerived ==
    {h @@ g @@ b :
        h \in {<<>>} \cup {("hit_count" :> n) : n \in 0..1},
        g \in {<<>>} \cup {("gold_count" :> n) : n \in 1..2},
        b \in {<<>>} \cup {("is_hit" :> v) : v \in BOOLEAN}}

InitEval ==
    /\ settings = DefaultSettings
    /\ vector_results = <<>>
    /\ keyword_results = <<>>
    /\ k_arg = None
    /\ fused_results = <<>>
    /\ prev_fused = <<>>
    /\ calls = 0
    /\ collection = <<>>
    /\ index = EmptyIndex
    /\ call = NoCall
    /\ results = <<>>
    /\ arrived = <<>>
    /\ phase = "start"
    /\ MetricsIdle
    /\ JudgeIdle
    /\ RagIdle
    /\ ExtraIdle

(* run_evaluation: one record per query, from the ids the response holds *)
RunEvaluation ==
    /\ phase = "start"
    /\ \E gold \in [1..Len(QuestionIds) -> GoldLists],
          retrieved \in [1..Len(QuestionIds) -> RetrievedLists] :
         results' = [i \in 1..Len(QuestionIds) |->
                        EvaluationRecord(QuestionIds[i], gold[i], retrieved[i])]
    /\ phase' = "evaluated"
    /\ UNCHANGED <<settings, fusionVars, serviceVars, arrived, laterVars>>

(* load_existing_results: the records of a results file, as its writer left *)
(* them (run_all_queries writes no derived field)                           *)
LoadExistingResults ==
    /\ phase = "start"
    /\ \E gold \in [1..Len(FileQuestionIds) -> GoldLists],
          retrieved \in [1..Len(FileQuestionIds) -> RetrievedLists],
          derived \in [1..Len(FileQuestionIds) -> StoredDerived] :
         results' = [i \in 1..Len(FileQuestionIds) |->
                        derived[i] @@
                        BatchRecord(FileQuestionIds[i], gold[i], retrieved[i])]
    /\ phase' = "loaded"
    /\ UNCHANGED <<settings, fusionVars, serviceVars, arrived, laterVars>>

(* calculate_metrics: the pre-processing loop over the records, which     *)
(* changes them in place, and the aggregates returned                      *)
CalculateMetrics ==
    /\ phase \in {"evaluated", "loaded"}
    /\ arrived' = results
    /\ results' = Preprocessed(results)
    /\ metrics' = calculate_metrics(results)
    /\ phase' = "derived"
    /\ UNCHANGED <<settings, fusionVars, serviceVars, rank_call, grouped, report,
                   judgeVars, ragVars, extraVars>>

NextEval ==
    \/ RunEvaluation
    \/ LoadExistingResults
    \/ CalculateMetrics

SpecEval == InitEval /\ [][NextEval]_vars

----------------------------------------------------------------------------
(* Reciprocal rank of one record *)

(* gold_doc_ids and retrieved_doc_ids as lists of document ids; an id may   *)
(* occur more than once                                                     *)
RankGoldLists == UNION {[1..n -> DocIds] : n \in 0..MaxGold}

RankRetrievedLists == UNION {[1..n -> DocIds] : n \in 0..MaxLen}

InitRank ==
    /\ settings = DefaultSettings
    /\ vector_results = <<>>
    /\ keyword_results = <<>>
    /\ k_arg = None
    /\ fused_results = <<>>
    /\ prev_fused = <<>>
    /\ calls = 0
    /\ collection = <<>>
    /\ index = EmptyIndex
    /\ call = NoCall
    /\ results = <<>>
    /\ arrived = <<>>
    /\ phase = "start"
    /\ MetricsIdle
    /\ JudgeIdle
    /\ RagIdle
    /\ ExtraIdle

(* calculate_reciprocal_rank(set(gold_doc_ids), retrieved_doc_ids) as the   *)
(* metrics script calls it, and calc_mrr on the batch of that one record    *)
CalculateReciprocalRank ==
    /\ rank_call = <<>>
    /\ \E gold_doc_ids \in RankGoldLists, retrieved_doc_ids \in RankRetrievedLists :
         rank_call' =
            [gold_doc_ids |-> gold_doc_ids,
             retrieved_doc_ids |-> retrieved_doc_ids,
             rr |-> calculate_reciprocal_rank(ToSet(gold_doc_ids), retrieved_doc_ids),
             mrr |-> calc_mrr(<<BatchRecord("qa", gold_doc_ids, retrieved_doc_ids)>>)]
    /\ UNCHANGED <<settings, fusionVars, serviceVars, evalVars, metrics, grouped,
                   report, judgeVars, ragVars, extraVars>>

NextRank == CalculateReciprocalRank

SpecRank == InitRank /\ [][NextRank]_vars

----------------------------------------------------------------------------
(* Metrics over a batch of records *)

MetricDocIds == 1..MetricDocs

(* gold_doc_ids of a record: any set of documents, possibly none, listed in *)
(* ascending order (the metrics read the list through set())                *)
MetricGoldLists ==
    {s \in UNION {[1..n -> MetricDocIds] : n \in 0..MetricDocs} :
        \A i, j \in 1..Len(s) : i < j => s[i] < s[j]}

(* retrieved_doc_ids of a record: the documents are numbered in the order   *)
(* the search ranked them for this query, so the list is 1, 2, .., n        *)
MetricRankings == {[i \in 1..n |-> i] : n \in 0..MetricDocs}

(* The category fields every query of queries.json carries *)
DefaultCategories == [source_dataset |-> "drcd", question_type |-> "single-hop"]

(* Records as run_all_queries (no derived field) and run_evaluation (the    *)
(* three derived fields) write them                                         *)
RetrievalRecords(question_id) ==
    {DefaultCategories @@ r :
        r \in UNION {{BatchRecord(question_id, gold, retrieved),
                      EvaluationRecord(question_id, gold, retrieved)} :
                     gold \in MetricGoldLists, retrieved \in MetricRankings}}

(* Records of a results file whose category fields may be missing *)
GroupRecords(question_id) ==
    {source @@ type @@ BatchRecord(question_id, gold, retrieved) :
        source \in {<<>>} \cup {("source_dataset" :> v) : v \in {"drcd", "squad"}},
        type \in {<<>>, ("question_type" :> "multi-hop")},
        gold \in MetricGoldLists, retrieved \in MetricRankings}

(* Records after a judgment pass or a merge that reached some of them *)
JudgedRecords(question_id) ==
    {judgment @@ DefaultCategories @@ BatchRecord(question_id, gold, retrieved) :
        judgment \in {<<>>, [is_pass |-> TRUE, llm_judgment |-> "Pass"],
                      [is_pass |-> FALSE, llm_judgment |-> "Fail"]},
        gold \in MetricGoldLists, retrieved \in MetricRankings}

(* Batches of n records: one record for each of the first n questions,     *)
(* records_of[q] being the records question q can have                      *)
RECURSIVE BatchesOfLen(_, _)
BatchesOfLen(records_of, n) ==
    IF n = 0 THEN {<<>>}
    ELSE {Append(s, r) : s \in BatchesOfLen(records_of, n - 1),
                         r \in records_of[QuestionIds[n]]}

Batches(records_of) ==
    UNION {BatchesOfLen(records_of, n) : n \in 0..Len(QuestionIds)}

(* The batches a metrics computation is given: records as the evaluation   *)
(* runs write them, records with categories missing, records partly judged  *)
MetricBatches(questions) ==
    Batches([q \in questions |-> RetrievalRecords(q)])
       \cup Batches([q \in questions |-> GroupRecords(q)])
       \cup Batches([q \in questions |-> JudgedRecords(q)])

InitMetrics ==
    /\ settings = DefaultSettings
    /\ vector_results = <<>>
    /\ keyword_results = <<>>
    /\ k_arg = None
    /\ fused_results = <<>>
    /\ prev_fused = <<>>
    /\ calls = 0
    /\ collection = <<>>
    /\ index = EmptyIndex
    /\ call = NoCall
    /\ results \in MetricBatches(ToSet(QuestionIds))
    /\ arrived = <<>>
    /\ phase = "loaded"
    /\ MetricsIdle
    /\ JudgeIdle
    /\ RagIdle
    /\ ExtraIdle

(* calculate_grouped_metrics: recomputes the derived fields of the records  *)
(* in place and returns the grouped aggregates                              *)
CalculateGroupedMetrics ==
    /\ phase \in {"loaded", "derived"}
    /\ grouped = <<>>
    /\ results' = Recomputed(results)
    /\ grouped' = calculate_grouped_metrics(results)
    /\ UNCHANGED <<settings, fusionVars, serviceVars, arrived, phase, rank_call,
                   metrics, report, judgeVars, ragVars, extraVars>>

(* The metrics script run on the results file *)
CalculateMetricsScript ==
    /\ phase = "loaded"
    /\ grouped = <<>>
    /\ report' = script_calculate_metrics(results)
    /\ phase' = "reported"
    /\ UNCHANGED <<settings, fusionVars, serviceVars, results, arrived, rank_call,
                   metrics, grouped, judgeVars, ragVars, extraVars>>

NextMetrics ==
    \/ CalculateMetrics
    \/ CalculateGroupedMetrics
    \/ CalculateMetricsScript

SpecMetrics == InitMetrics /\ [][NextMetrics]_vars

----------------------------------------------------------------------------
(* The results file and the judgment of the generated answers *)

(* round(x, 2) for x >= 0, ties to the even neighbour *)
Round2(x) ==
    LET scaled == x[1] * 100
        below == scaled \div x[2]
        rest == scaled % x[2]
    IN Frac(IF 2 * rest < x[2] THEN below
            ELSE IF 2 * rest > x[2] THEN below + 1
            ELSE IF below % 2 = 0 THEN below ELSE below + 1,
            100)

(* run_evaluation: the metadata of a run that took elapsed_ms milliseconds *)
RunMetadata(mode, top_k, records, elapsed_ms, timestamp) ==
    [mode |-> mode,
     top_k |-> top_k,
     total_questions |-> Len(records),
     total_time_seconds |-> Round2(Frac(elapsed_ms, 1000)),
     avg_response_time_ms |-> Round2(Frac(elapsed_ms, Len(records))),
     timestamp |-> timestamp]

(* save_results called without metadata: the parameter is None, which is   *)
(* falsy like the dict without keys                                         *)
NoMetadata == <<>>

(* save_results, the file written: "metadata or {}" and the records *)
save_results(mode_results, metadata) ==
    [exists |-> TRUE,
     metadata |-> IF metadata = NoMetadata THEN <<>> ELSE metadata,
     results |-> mode_results]

(* What the judgment provider does with one request: it answers with a text *)
(* or raises an exception e                                                 *)
ProviderReplies == {"Pass", " PASS\n", "Fail"}

ProviderErrors == {"timeout", ""}

ProviderOutcomes ==
    {[raised |-> FALSE, content |-> c] : c \in ProviderReplies}
       \cup {[raised |-> TRUE, error |-> e] : e \in ProviderErrors}

(* str.strip() on the replies of the provider *)
Strip(text) ==
    CASE text = " PASS\n" -> "PASS"
      [] OTHER -> text

(* str.lower() on the stripped replies *)
Lower(text) ==
    CASE text = "Pass" -> "pass"
      [] text = "PASS" -> "pass"
      [] text = "Fail" -> "fail"
      [] OTHER -> text

(* f"Error: {e}" for the exceptions of the provider, by str(e) *)
ErrorMarker(e) ==
    CASE e = "timeout" -> "Error: timeout"
      [] e = "" -> "Error: "

(* len() of the texts a judgment holds *)
TextLen(text) ==
    CASE text = "" -> 0
      [] text = "Pass" -> 4
      [] text = "PASS" -> 4
      [] text = "Fail" -> 4
      [] text = " PASS\n" -> 6
      [] text = "Error: " -> 7
      [] text = "Error: timeout" -> 14

(* Variant: the exception is reported as a passed judgment *)
evaluate_answer_ErrorPasses(outcome) ==
    IF outcome.raised
    THEN [raw |-> ErrorMarker(outcome.error), is_pass |-> TRUE]
    ELSE LET raw == Strip(outcome.content)
         IN [raw |-> raw, is_pass |-> Lower(raw) = "pass"]

(* evaluate_answers.evaluate_answer: (raw_response, is_pass) *)
evaluate_answer(outcome) ==
    IF outcome.raised
    THEN [raw |-> ErrorMarker(outcome.error), is_pass |-> FALSE]
    ELSE LET raw == Strip(outcome.content)
         IN [raw |-> raw, is_pass |-> Lower(raw) = "pass"]

(* evaluate_answers.evaluate_all: one entry appended per record, in order *)
evaluate_all(records, outcomes) ==
    [i \in 1..Len(records) |->
        LET r == records[i]
            judged == evaluate_answer(outcomes[i])
        IN [question_id |-> r.question_id,
            question |-> r.question,
            question_type |-> Get(r, "question_type", "unknown"),
            source_dataset |-> Get(r, "source_dataset", "unknown"),
            gold_answer |-> Get(r, "gold_answer", ""),
            generated_answer |-> Get(r, "generated_answer", ""),
            llm_judgment |-> judged.raw,
            is_pass |-> judged.is_pass]]

(* calculate_pass_rate: total, passed and rounded pass rate of some entries *)
PassStats(entries) ==
    LET total == Cardinality(entries)
        passed == Cardinality({i \in entries : i[2].is_pass})
    IN [total |-> total, passed |-> passed,
        pass_rate |-> IF total > 0 THEN Round4(Frac(passed, total)) ELSE Zero]

(* evaluate_answers.calculate_pass_rate: over all entries, by type, by source *)
calculate_pass_rate(entries) ==
    LET all == {<<i, entries[i]>> : i \in 1..Len(entries)}
        by(key) == [v \in {e[2][key] : e \in all} |->
                       PassStats({e \in all : e[2][key] = v})]
    IN [summary |-> PassStats(all),
        by_question_type |-> by("question_type"),
        by_source |-> by("source_dataset")]

(* Variant: the judgment pass also marks the record as a retrieval miss *)
JudgeInPlace_ClearsHit(r, outcome) ==
    IF outcome.raised
    THEN SetKey(SetKey(SetKey(r, "llm_judgment", ErrorMarker(outcome.error)),
                       "is_pass", FALSE), "is_hit", FALSE)
    ELSE LET raw == Strip(outcome.content)
         IN SetKey(SetKey(SetKey(r, "llm_judgment", raw),
                          "is_pass", Lower(raw) = "pass"), "is_hit", FALSE)

(* run_llm_evaluation, the body of the loop: the try and its except *)
JudgeInPlace(r, outcome) ==
    IF outcome.raised
    THEN SetKey(SetKey(r, "llm_judgment", ErrorMarker(outcome.error)),
                "is_pass", FALSE)
    ELSE LET raw == Strip(outcome.content)
         IN SetKey(SetKey(r, "llm_judgment", raw),
                   "is_pass", Lower(raw) = "pass")

(* run_llm_evaluation: the records after the loop *)
run_llm_evaluation(records, outcomes) ==
    [i \in 1..Len(records) |-> JudgeInPlace(records[i], outcomes[i])]

(* load_existing_results: eval_map, the last entry of each question_id *)
EvalEntry(eval_results, q_id) ==
    LET at == {i \in 1..Len(eval_results) : eval_results[i].question_id = q_id}
    IN eval_results[CHOOSE i \in at : \A j \in at : j <= i]

EvalIds(eval_results) ==
    {eval_results[i].question_id : i \in 1..Len(eval_results)}

(* load_existing_results, the merge of the judgment file into the records *)
MergeJudgments(mode_results, file) ==
    IF ~file.exists THEN mode_results
    ELSE [i \in 1..Len(mode_results) |->
            LET r == mode_results[i]
                q_id == Get(r, "question_id", "")
            IN IF q_id # "" /\ q_id \in EvalIds(file.results)
               THEN LET e == EvalEntry(file.results, q_id)
                    IN SetKey(SetKey(r, "llm_judgment",
                                     Get(e, "llm_judgment", None)),
                              "is_pass", Get(e, "is_pass", FALSE))
               ELSE r]

(* The record run_evaluation writes for a query *)
JudgeTexts ==
    [question |-> "question", gold_answer |-> "gold", generated_answer |-> "answer",
     response_time_ms |-> 1]

RunRecords(question_id) ==
    {JudgeTexts @@ DefaultCategories @@ EvaluationRecord(question_id, <<1>>, retrieved) :
        retrieved \in MetricRankings}

(* Wall-clock readings of a run *)
ElapsedMs == {1234}

Timestamps == {"2025-01-01T00:00:00"}

(* The results file an evaluation run of one or more queries has written *)
RunFiles ==
    {save_results(batch, RunMetadata(mode, DefaultTopK, batch, elapsed, now)) :
        batch \in UNION {BatchesOfLen([q \in ToSet(QuestionIds) |-> RunRecords(q)], n) :
                           n \in 1..Len(QuestionIds)},
        mode \in {"keyword", "hybrid"}, elapsed \in ElapsedMs, now \in Timestamps}

(* A dashboard session opened on the file of an earlier evaluation run *)
InitJudge ==
    /\ settings = DefaultSettings
    /\ vector_results = <<>>
    /\ keyword_results = <<>>
    /\ k_arg = None
    /\ fused_results = <<>>
    /\ prev_fused = <<>>
    /\ calls = 0
    /\ collection = <<>>
    /\ index = EmptyIndex
    /\ call = NoCall
    /\ results = <<>>
    /\ arrived = <<>>
    /\ phase = "start"
    /\ MetricsIdle
    /\ evaluated = <<>>
    /\ eval_file = NoFile
    /\ result_file \in RunFiles
    /\ replies = <<>>
    /\ RagIdle
    /\ ExtraIdle

(* scripts/evaluate_answers.py main: judges the records of the results file *)
(* and writes the judgment file                                              *)
EvaluateAnswersScript ==
    /\ result_file.exists
    /\ ~eval_file.exists
    /\ \E outcomes \in [1..Len(result_file.results) -> ProviderOutcomes] :
         /\ replies' = [pass |-> "evaluate_all", outcomes |-> outcomes]
         /\ evaluated' = evaluate_all(result_file.results, outcomes)
    /\ \E now \in Timestamps :
         eval_file' = [exists |-> TRUE,
                       metadata |-> [input_file |-> "rag_results", model |-> "gpt-4o-mini",
                                     timestamp |-> now],
                       statistics |-> calculate_pass_rate(evaluated'),
                       results |-> evaluated']
    /\ UNCHANGED <<settings, fusionVars, serviceVars, evalVars, metricVars,
                   result_file, ragVars, extraVars>>

(* main, the session load: load_existing_results reads the results file and *)
(* merges the judgment file when there is one                                *)
LoadAndMerge ==
    /\ phase = "start"
    /\ result_file.exists
    /\ arrived' = result_file.results
    /\ results' = MergeJudgments(result_file.results, eval_file)
    /\ phase' = "loaded"
    /\ UNCHANGED <<settings, fusionVars, serviceVars, metricVars, judgeVars, ragVars, extraVars>>

(* main, the judgment button: run_llm_evaluation on the records of the      *)
(* session, then save_results(mode, results)                                 *)
RunLlmEvaluation ==
    /\ phase = "loaded"
    /\ \E outcomes \in [1..Len(results) -> ProviderOutcomes] :
         /\ replies' = [pass |-> "run_llm_evaluation", outcomes |-> outcomes]
         /\ results' = run_llm_evaluation(results, outcomes)
    /\ arrived' = results
    /\ result_file' = save_results(results', NoMetadata)
    /\ phase' = "judged"
    /\ UNCHANGED <<settings, fusionVars, serviceVars, metricVars, evaluated,
                   eval_file, ragVars, extraVars>>

NextJudge ==
    \/ EvaluateAnswersScript
    \/ LoadAndMerge
    \/ RunLlmEvaluation

SpecJudge == InitJudge /\ [][NextJudge]_vars

----------------------------------------------------------------------------
(* RAGService over one RetrievalService and one GenerationService *)

(* Variant: the index is asked for in keyword mode too *)
NeedsLoad_AnyMode(mode, vector_index_loaded) == ~vector_index_loaded

(* The condition of the load in initialize, retrieve and answer *)
NeedsLoad(mode, vector_index_loaded) ==
    mode \in {"vector", "hybrid"} /\ ~vector_index_loaded

(* The record kept of a search call that returned r *)
CallRecord(mode, top_k, query, provider_ok, query_embedding, r) ==
    [mode |-> mode, top_k |-> top_k, query |-> query,
     provider_ok |-> provider_ok,
     query_embedding |-> query_embedding,
     outcome |-> "returned",
     vector_top_k |-> r.vector_top_k,
     keyword_top_k |-> r.keyword_top_k,
     results |-> r.results]

(* RetrievalService.search(query, top_k, mode=mode) on a loaded or unloaded *)
(* index: every call the provider and the store can make of it             *)
SearchOutcomes(idx, coll, mode, cfg) ==
    IF mode = "keyword"
    THEN UNION {{CallRecord(mode, top_k, query, TRUE, <<>>,
                            search(idx, <<>>, <<>>, ranking, top_k, mode, cfg)) :
                    ranking \in TextRankings(coll, query,
                                             OrDefault(top_k, cfg.DEFAULT_TOP_K))} :
                  top_k \in TopKArgs, query \in Queries}
    ELSE UNION {UNION {{CallRecord(mode, top_k, e[1], e[2], get_embedding(e[1], e[2]),
                                   search(idx, get_embedding(e[1], e[2]), order,
                                          ranking, top_k, mode, cfg)) :
                           ranking \in IF mode = "vector" THEN {<<>>}
                                       ELSE TextRankings(coll, e[1],
                                                         cfg.INITIAL_RETRIEVAL_K),
                           top_k \in TopKArgs} :
                        order \in argsort(Similarities(idx, get_embedding(e[1], e[2])))} :
                  e \in EmbedOutcomes}

(* What the generation provider does: an answer, an empty content, an error *)
GenerationOutcomes == {"answer", "", "error"}

(* GenerationService.generate_answer *)
generate_answer(outcome) ==
    CASE outcome = "answer" -> "answer"
      [] outcome = "" -> ""
      [] outcome = "error" -> "generation error"

NoAnswer == "no relevant information"

(* The store behind the service: RagDocs documents, with or without an     *)
(* embedding                                                                *)
RagCollections ==
    {[i \in 1..RagDocs |-> Document(i, e[i])] :
        e \in [1..RagDocs ->
                  {NullEmbedding} \cup {Embedding(v) : v \in EmbeddingVectors}]}

(* What can go wrong in the store during a call in this mode: nothing, the *)
(* read of the embeddings raises, the text search raises                   *)
FaultsOf(mode, vector_index_loaded) ==
    {"none"} \cup (IF NeedsLoad(mode, vector_index_loaded) THEN {"load"} ELSE {})
             \cup (IF mode \in {"keyword", "hybrid"} THEN {"text"} ELSE {})

(* A service just constructed *)
NewRag == [vector_index_loaded |-> FALSE]

(* No RAGService call made yet *)
NoRagCall == [op |-> "none", mode |-> "", outcome |-> "none"]

InitRag ==
    /\ settings = DefaultSettings
    /\ collection \in RagCollections
    /\ index = EmptyIndex
    /\ call = NoCall
    /\ vector_results = <<>>
    /\ keyword_results = <<>>
    /\ k_arg = None
    /\ fused_results = <<>>
    /\ prev_fused = <<>>
    /\ calls = 0
    /\ results = <<>>
    /\ arrived = <<>>
    /\ phase = "start"
    /\ MetricsIdle
    /\ JudgeIdle
    /\ rag = NewRag
    /\ rag_call = NoRagCall
    /\ loads = 0
    /\ modes_seen = {}
    /\ ExtraIdle

(* The load at the head of initialize, retrieve and answer, when it is due  *)
(* and the store answers                                                     *)
EnsureLoaded(mode) ==
    IF NeedsLoad(mode, rag.vector_index_loaded)
    THEN /\ index' = load_vector_index(index, collection)
         /\ loads' = IF index.index_loaded THEN loads ELSE loads + 1
         /\ rag' = [rag EXCEPT !.vector_index_loaded = TRUE]
    ELSE UNCHANGED <<index, loads, rag>>

(* RAGService.initialize(mode) *)
Initialize ==
    \E mode \in Modes :
    \E fault \in FaultsOf(mode, rag.vector_index_loaded) \ {"text"} :
      /\ modes_seen' = modes_seen \cup {mode}
      /\ IF fault = "load" /\ NeedsLoad(mode, rag.vector_index_loaded)
         THEN /\ rag_call' = [op |-> "initialize", mode |-> mode, outcome |-> "raised"]
              /\ UNCHANGED <<index, loads, rag>>
         ELSE /\ EnsureLoaded(mode)
              /\ rag_call' = [op |-> "initialize", mode |-> mode, outcome |-> "returned"]
      /\ call' = NoCall
      /\ UNCHANGED <<settings, fusionVars, collection, evalVars, metricVars, judgeVars, extraVars>>

(* The head of retrieve and answer up to the return of search: the call    *)
(* record of the search, or a raised exception                              *)
LoadAndSearch(mode, fault) ==
    IF fault = "load" /\ NeedsLoad(mode, rag.vector_index_loaded)
    THEN /\ call' = [NoCall EXCEPT !.mode = mode, !.outcome = "raised"]
         /\ UNCHANGED <<index, loads, rag>>
    ELSE /\ EnsureLoaded(mode)
         /\ IF fault = "text" /\ mode \in {"keyword", "hybrid"}
            THEN call' = [NoCall EXCEPT !.mode = mode, !.outcome = "raised"]
            ELSE call' \in SearchOutcomes(index', collection, mode, settings)

(* RAGService.retrieve(query, top_k, mode) *)
Retrieve ==
    \E mode \in Modes :
    \E fault \in FaultsOf(mode, rag.vector_index_loaded) :
      /\ modes_seen' = modes_seen \cup {mode}
      /\ LoadAndSearch(mode, fault)
      /\ rag_call' = [op |-> "retrieve", mode |-> mode, outcome |-> call'.outcome]
      /\ UNCHANGED <<settings, fusionVars, collection, evalVars, metricVars, judgeVars, extraVars>>

(* RAGResponse.retrieved_doc_ids *)
retrieved_doc_ids(response) ==
    [i \in 1..Len(response.contexts) |-> response.contexts[i].doc_id]

(* Variant: the generation provider is asked even without contexts *)
answer_AlwaysGenerates(query, contexts, generation) ==
    [generations |-> 1,
     response |-> [query |-> query, answer |-> generate_answer(generation),
                   contexts |-> contexts]]

(* RAGService.answer after the search: the fixed answer when the search    *)
(* returned nothing, one call of generate_answer otherwise                  *)
answer(query, contexts, generation) ==
    IF contexts = <<>>
    THEN [generations |-> 0,
          response |-> [query |-> query, answer |-> NoAnswer, contexts |-> <<>>]]
    ELSE [generations |-> 1,
          response |-> [query |-> query, answer |-> generate_answer(generation),
                        contexts |-> contexts]]

(* RAGService.answer(query, top_k, mode) *)
Answer ==
    \E mode \in Modes :
    \E fault \in FaultsOf(mode, rag.vector_index_loaded) :
      /\ modes_seen' = modes_seen \cup {mode}
      /\ LoadAndSearch(mode, fault)
      /\ IF call'.outcome = "raised"
         THEN rag_call' = [op |-> "answer", mode |-> mode, outcome |-> "raised"]
         ELSE \E generation \in IF call'.results = <<>> THEN {"answer"}
                                 ELSE GenerationOutcomes :
                LET a == answer(call'.query, call'.results, generation)
                IN rag_call' =
                     [op |-> "answer", mode |-> mode, outcome |-> "returned",
                      generations |-> a.generations, response |-> a.response]
      /\ UNCHANGED <<settings, fusionVars, collection, evalVars, metricVars, judgeVars, extraVars>>

NextRag ==
    \/ Initialize
    \/ Retrieve
    \/ Answer

SpecRag == InitRag /\ [][NextRag]_vars

----------------------------------------------------------------------------
(* Threads inside RetrievalService.load_vector_index and vector_search.    *)
(* The methods take no lock; a step is one read or write of an attribute   *)
(* of the service.                                                          *)

Threads == {"t1", "t2"}

(* top_k: int = 10 of vector_search *)
VectorSearchTopK == 10

(* A thread outside the service *)
IdleThread ==
    [pc |-> "idle", op |-> "none", read |-> <<>>, i |-> 0,
     embeddings_list |-> <<>>, similarities |-> <<>>, top_indices |-> <<>>,
     outcome |-> "none", results |-> <<>>]

InitThreads ==
    /\ settings = DefaultSettings
    /\ collection \in Collections
    /\ index = EmptyIndex
    /\ call = NoCall
    /\ vector_results = <<>>
    /\ keyword_results = <<>>
    /\ k_arg = None
    /\ fused_results = <<>>
    /\ prev_fused = <<>>
    /\ calls = 0
    /\ results = <<>>
    /\ arrived = <<>>
    /\ phase = "start"
    /\ MetricsIdle
    /\ JudgeIdle
    /\ RagIdle
    /\ threads = [t \in Threads |-> IdleThread]
    /\ ingest = <<>>
    /\ db = <<>>
    /\ run = <<>>

threadFrame ==
    <<settings, fusionVars, collection, call, evalVars, metricVars, judgeVars,
      rag, rag_call, modes_seen, ingest, db, run>>

(* A thread calls vector_search or load_vector_index *)
ThreadCalls(t) ==
    /\ threads[t].pc = "idle"
    /\ \E op \in {"vector_search", "load_vector_index"} :
         threads' = [threads EXCEPT ![t].op = op,
                                    ![t].pc = IF op = "vector_search"
                                              THEN "guard" ELSE "enter"]
    /\ UNCHANGED <<index, loads, threadFrame>>

(* vector_search: if not self._index_loaded: self.load_vector_index() *)
SearchGuard(t) ==
    /\ threads[t].pc = "guard"
    /\ threads' = [threads EXCEPT ![t].pc = IF index.index_loaded
                                            THEN "check" ELSE "enter"]
    /\ UNCHANGED <<index, loads, threadFrame>>

(* load_vector_index: if self._index_loaded: return *)
LoadGuard(t) ==
    /\ threads[t].pc = "enter"
    /\ threads' = [threads EXCEPT ![t].pc =
                      IF ~index.index_loaded THEN "read"
                      ELSE IF threads[t].op = "vector_search" THEN "check"
                      ELSE "done"]
    /\ UNCHANGED <<index, loads, threadFrame>>

(* docs_with_embeddings = self._repository.get_all_with_embeddings() *)
LoadRead(t) ==
    /\ threads[t].pc = "read"
    /\ threads' = [threads EXCEPT ![t].read = get_all_with_embeddings(collection),
                                  ![t].pc = "reset"]
    /\ loads' = loads + 1
    /\ UNCHANGED <<index, threadFrame>>

(* self._docs = []; embeddings_list = [] *)
LoadReset(t) ==
    /\ threads[t].pc = "reset"
    /\ index' = [index EXCEPT !.docs = <<>>]
    /\ threads' = [threads EXCEPT ![t].embeddings_list = <<>>, ![t].i = 1,
                                  ![t].pc = "loop"]
    /\ UNCHANGED <<loads, threadFrame>>

(* One turn of the loop: self._docs.append(doc) on the list the attribute  *)
(* holds now, embeddings_list.append(doc["embedding"]) on the local list    *)
LoadAppend(t) ==
    /\ threads[t].pc = "loop"
    /\ LET th == threads[t]
       IN IF th.i > Len(th.read)
          THEN /\ threads' = [threads EXCEPT ![t].pc = "assign"]
               /\ UNCHANGED index
          ELSE LET doc == th.read[th.i]
               IN IF Len(doc.embedding.vec) > 0
                  THEN /\ index' = [index EXCEPT !.docs = Append(@, doc)]
                       /\ threads' = [threads EXCEPT
                                         ![t].embeddings_list =
                                             Append(@, doc.embedding.vec),
                                         ![t].i = @ + 1]
                  ELSE /\ threads' = [threads EXCEPT ![t].i = @ + 1]
                       /\ UNCHANGED index
    /\ UNCHANGED <<loads, threadFrame>>

(* self._embeddings = np.array(embeddings_list), or None for an empty list *)
LoadAssign(t) ==
    /\ threads[t].pc = "assign"
    /\ index' = [index EXCEPT !.embeddings =
                    IF Len(threads[t].embeddings_list) > 0
                    THEN [null |-> FALSE, rows |-> threads[t].embeddings_list]
                    ELSE NullArray]
    /\ threads' = [threads EXCEPT ![t].pc = "flag"]
    /\ UNCHANGED <<loads, threadFrame>>

(* self._index_loaded = True *)
LoadFlag(t) ==
    /\ threads[t].pc = "flag"
    /\ index' = [index EXCEPT !.index_loaded = TRUE]
    /\ threads' = [threads EXCEPT ![t].pc = IF threads[t].op = "vector_search"
                                            THEN "check" ELSE "done"]
    /\ UNCHANGED <<loads, threadFrame>>

(* vector_search: the test of self._embeddings, the embedding of the query, *)
(* the similarities to the rows of self._embeddings and the top indices     *)
SearchRank(t) ==
    /\ threads[t].pc = "check"
    /\ IF index.embeddings.null \/ Len(index.embeddings.rows) = 0
       THEN threads' = [threads EXCEPT ![t].outcome = "returned",
                                       ![t].pc = "done"]
       ELSE LET similarities == Similarities(index, QueryVector("q1"))
            IN \E order \in argsort(similarities) :
                 threads' = [threads EXCEPT
                                ![t].similarities = similarities,
                                ![t].top_indices =
                                    TopIndices(order, VectorSearchTopK),
                                ![t].pc = "collect"]
    /\ UNCHANGED <<index, loads, threadFrame>>

(* vector_search: the loop over top_indices, doc = self._docs[idx]; an     *)
(* index past the end of the list raises IndexError                         *)
SearchCollect(t) ==
    /\ threads[t].pc = "collect"
    /\ LET th == threads[t]
       IN IF \E n \in 1..Len(th.top_indices) : th.top_indices[n] > Len(index.docs)
          THEN threads' = [threads EXCEPT ![t].outcome = "IndexError",
                                          ![t].pc = "done"]
          ELSE threads' = [threads EXCEPT
                             ![t].outcome = "returned",
                             ![t].results =
                                 [n \in 1..Len(th.top_indices) |->
                                     LET doc == index.docs[th.top_indices[n]]
                                     IN RetrievalResult(
                                            doc.doc_id, doc.content,
                                            th.similarities[th.top_indices[n]],
                                            "vector", doc.original_source)],
                             ![t].pc = "done"]
    /\ UNCHANGED <<index, loads, threadFrame>>

NextThreads ==
    \E t \in Threads :
        \/ ThreadCalls(t)
        \/ SearchGuard(t)
        \/ LoadGuard(t)
        \/ LoadRead(t)
        \/ LoadReset(t)
        \/ LoadAppend(t)
        \/ LoadAssign(t)
        \/ LoadFlag(t)
        \/ SearchRank(t)
        \/ SearchCollect(t)

SpecThreads == InitThreads /\ [][NextThreads]_vars

----------------------------------------------------------------------------
(* Ingestion: IngestionService.ingest_corpus over DocumentRepository *)

(* The corpus file: up to IngestDocs documents, a doc_id may come twice *)
Corpora == UNION {[1..n -> 1..IngestDocs] : n \in 0..IngestDocs}

(* The vector the provider returns for the content of a document *)
ContentVector(doc_id) == IF doc_id % 2 = 1 THEN <<1, 0>> ELSE <<1, 1>>

(* Variant: a batch that failed yields zero vectors *)
get_embeddings_batch_ZeroVectors(doc_ids, provider_ok) ==
    [p \in 1..Len(doc_ids) |->
        IF provider_ok THEN ContentVector(doc_ids[p]) ELSE <<0, 0>>]

(* EmbeddingService.get_embeddings_batch on the contents of one batch: the *)
(* vectors of the response, or one [] per text when the request raises     *)
get_embeddings_batch(doc_ids, provider_ok) ==
    [p \in 1..Len(doc_ids) |->
        IF provider_ok THEN ContentVector(doc_ids[p]) ELSE <<>>]

(* The batch that position p of the corpus falls in *)
BatchOf(p, batch_size) == ((p - 1) \div batch_size) + 1

NumBatches(n, batch_size) == (n + batch_size - 1) \div batch_size

(* ingest_corpus, step 3: all_embeddings, batch by batch *)
AllEmbeddings(corpus, batch_size, provider_ok) ==
    [p \in 1..Len(corpus) |->
        LET b == BatchOf(p, batch_size)
            first == (b - 1) * batch_size + 1
            last == IF b * batch_size > Len(corpus) THEN Len(corpus)
                    ELSE b * batch_size
        IN get_embeddings_batch(SubSeq(corpus, first, last),
                                provider_ok[b])[p - first + 1]]

(* ingest_corpus: doc["embedding"] = emb if emb else None; without          *)
(* generate_embeddings the document has no embedding, which the queries of  *)
(* the store read like a null one                                           *)
EmbeddedCorpus(corpus, generate_embeddings, batch_size, provider_ok) ==
    [p \in 1..Len(corpus) |->
        IF ~generate_embeddings THEN Document(corpus[p], NullEmbedding)
        ELSE LET emb == AllEmbeddings(corpus, batch_size, provider_ok)[p]
             IN Document(corpus[p],
                         IF Len(emb) > 0 THEN Embedding(emb) ELSE NullEmbedding)]

StoreIds(store) == {store[i].doc_id : i \in 1..Len(store)}

(* The documents of the sequence at the positions of the set, in order *)
RECURSIVE Picked(_, _, _)
Picked(documents, positions, n) ==
    IF n = 0 THEN <<>>
    ELSE IF n \in positions
    THEN Append(Picked(documents, positions, n - 1), documents[n])
    ELSE Picked(documents, positions, n - 1)

(* collection.insert_many(documents, ordered=False): the sets of positions *)
(* the store can insert.  Without the unique index every document goes in; *)
(* with it one document goes in for each doc_id the store does not hold.   *)
Insertable(store, documents, unique_index) ==
    IF ~unique_index THEN {1..Len(documents)}
    ELSE {K \in SUBSET (1..Len(documents)) :
            /\ \A p \in K : documents[p].doc_id \notin StoreIds(store)
            /\ \A p, q \in K : documents[p].doc_id = documents[q].doc_id => p = q
            /\ \A p \in 1..Len(documents) :
                  documents[p].doc_id \notin StoreIds(store)
                     => \E q \in K : documents[q].doc_id = documents[p].doc_id}

(* Variant: an ordered insert, which stops at the first conflict *)
insert_many_Ordered(store, documents, unique_index, K) ==
    IF Len(documents) = 0 THEN [store |-> store, returned |-> 0, touched |-> FALSE]
    ELSE LET ok(p) == ~unique_index \/
                      /\ documents[p].doc_id \notin StoreIds(store)
                      /\ \A q \in 1..(p - 1) : documents[q].doc_id # documents[p].doc_id
             upto == {p \in 1..Len(documents) : \A q \in 1..p : ok(q)}
         IN [store |-> store \o Picked(documents, upto, Len(documents)),
             returned |-> Cardinality(upto), touched |-> TRUE]

(* DocumentRepository.insert_many: the store afterwards and the value      *)
(* returned, len(inserted_ids) or nInserted of the BulkWriteError, when    *)
(* the store inserts the positions K                                       *)
insert_many(store, documents, unique_index, K) ==
    IF Len(documents) = 0 THEN [store |-> store, returned |-> 0, touched |-> FALSE]
    ELSE [store |-> store \o Picked(documents, K, Len(documents)),
          returned |-> Cardinality(K), touched |-> TRUE]

(* create_indexes: the unique index on doc_id cannot be built over a store *)
(* that holds a doc_id twice                                                *)
HasDuplicates(store) ==
    \E i, j \in 1..Len(store) : i < j /\ store[i].doc_id = store[j].doc_id

(* No ingest_corpus call made in this process *)
NoIngest(unique_index) ==
    [unique_index |-> unique_index, op |-> "none", outcome |-> "none",
     returned |-> None, before |-> <<>>, batch |-> <<>>, failed |-> {}, touched |-> FALSE]

(* The stores earlier ingestions leave behind once create_indexes has      *)
(* built the unique index: no doc_id twice, each document with the vector  *)
(* of its content or without embedding                                      *)
IndexedStores ==
    {[i \in 1..Len(ids) |->
         Document(ids[i], IF ids[i] \in embedded
                          THEN Embedding(ContentVector(ids[i]))
                          ELSE NullEmbedding)] :
        ids \in {s \in Corpora : Injective(s)},
        embedded \in SUBSET (1..IngestDocs)}

InitIngest ==
    /\ settings = DefaultSettings
    /\ \/ /\ collection = <<>>
          /\ ingest = NoIngest(FALSE)
       \/ /\ collection \in IndexedStores
          /\ ingest = NoIngest(TRUE)
    /\ index = EmptyIndex
    /\ call = NoCall
    /\ vector_results = <<>>
    /\ keyword_results = <<>>
    /\ k_arg = None
    /\ fused_results = <<>>
    /\ prev_fused = <<>>
    /\ calls = 0
    /\ results = <<>>
    /\ arrived = <<>>
    /\ phase = "start"
    /\ MetricsIdle
    /\ JudgeIdle
    /\ RagIdle
    /\ threads = <<>>
    /\ db = <<>>
    /\ run = <<>>

(* ingest_corpus(file_path, generate_embeddings, batch_size, clear_existing), *)
(* run once, before the retrieval service of the process loads its index      *)
IngestCorpus ==
    /\ ingest.outcome = "none"
    /\ ~index.index_loaded
    /\ \E corpus \in Corpora, generate_embeddings, clear_existing \in BOOLEAN,
          batch_size \in 1..IngestDocs :
       \E provider_ok \in [1..NumBatches(Len(corpus), batch_size) -> BOOLEAN] :
         IF Len(corpus) = 0
         THEN /\ ingest' = [ingest EXCEPT !.op = "ingest_corpus",
                                          !.outcome = "returned",
                                          !.returned = 0, !.before = collection,
                                          !.batch = <<>>, !.failed = {},
                                          !.touched = FALSE]
              /\ UNCHANGED collection
         ELSE LET before == IF clear_existing THEN <<>> ELSE collection
                  documents == EmbeddedCorpus(corpus, generate_embeddings,
                                              batch_size, provider_ok)
                  failed == {p \in 1..Len(corpus) :
                                generate_embeddings
                                   /\ ~provider_ok[BatchOf(p, batch_size)]}
              IN \E K \in Insertable(before, documents, ingest.unique_index) :
                   LET done == insert_many(before, documents,
                                           ingest.unique_index, K)
                       raises == ~ingest.unique_index /\ HasDuplicates(done.store)
                   IN /\ collection' = done.store
                      /\ ingest' = [unique_index |-> ingest.unique_index \/ ~raises,
                                    op |-> "ingest_corpus",
                                    outcome |-> IF raises THEN "raised"
                                                ELSE "returned",
                                    returned |-> done.returned,
                                    before |-> before,
                                    batch |-> documents,
                                    failed |-> failed,
                                    touched |-> done.touched]
    /\ UNCHANGED <<settings, fusionVars, index, call, evalVars, metricVars,
                   judgeVars, ragVars, threads, db, run>>

(* The batches insert_many is handed: documents with or without embedding *)
InsertBatches ==
    {[p \in 1..Len(ids) |->
         Document(ids[p], IF embedded[p] THEN Embedding(ContentVector(ids[p]))
                          ELSE NullEmbedding)] :
        ids \in Corpora, embedded \in [1..IngestDocs -> BOOLEAN]}

(* DocumentRepository.insert_many(documents) called on the store *)
InsertMany ==
    /\ ingest.outcome = "none"
    /\ ~index.index_loaded
    /\ \E documents \in InsertBatches :
       \E K \in Insertable(collection, documents, ingest.unique_index) :
         LET done == insert_many(collection, documents, ingest.unique_index, K)
         IN /\ collection' = done.store
            /\ ingest' = [unique_index |-> ingest.unique_index,
                          op |-> "insert_many",
                          outcome |-> "returned",
                          returned |-> done.returned,
                          before |-> collection,
                          batch |-> documents,
                          failed |-> {},
                          touched |-> done.touched]
    /\ UNCHANGED <<settings, fusionVars, index, call, evalVars, metricVars,
                   judgeVars, ragVars, threads, db, run>>

NextIngest ==
    \/ IngestCorpus
    \/ InsertMany
    \/ LoadVectorIndex
    \/ SearchVector

SpecIngest == InitIngest /\ [][NextIngest]_vars

----------------------------------------------------------------------------
(* The connection singleton (core/database.py) *)

(* MongoDBClient() always yields the one instance (__new__, get_instance),  *)
(* so the state is that of this instance.  A MongoClient is named by the    *)
(* number of clients made so far; `verified` holds the clients whose ping   *)
(* succeeded, `closed` the clients close() was called on.  op, outcome and  *)
(* value describe the last call, log the calls so far.                      *)
NewDb ==
    [_client |-> None, _db |-> None, created |-> 0, verified |-> {},
     closed |-> {}, op |-> "none", outcome |-> "none", value |-> None,
     log |-> <<>>]

(* What the driver does during a connect: the constructor rejects the URI,  *)
(* the ping raises, or the ping succeeds                                    *)
ConnectOutcomes == {"client_raises", "ping_raises", "ok"}

(* MongoDBClient.connect *)
connect(d, driver) ==
    IF d._client # None THEN [d EXCEPT !.outcome = "returned"]
    ELSE IF driver = "client_raises" THEN [d EXCEPT !.outcome = "raised"]
    ELSE LET client == d.created + 1
             assigned == [d EXCEPT !.created = client, !._client = client,
                                   !._db = client]
         IN IF driver = "ping_raises"
            THEN [assigned EXCEPT !.outcome = "raised"]
            ELSE [assigned EXCEPT !.verified = @ \cup {client},
                                  !.outcome = "returned"]

(* MongoDBClient.db *)
db_property(d, driver) ==
    LET connected == IF d._db = None THEN connect(d, driver)
                     ELSE [d EXCEPT !.outcome = "returned"]
    IN IF connected.outcome = "raised" THEN [connected EXCEPT !.value = None]
       ELSE [connected EXCEPT !.value = connected._db]

(* MongoDBClient.close *)
close(d) ==
    IF d._client # None
    THEN [d EXCEPT !.closed = @ \cup {d._client}, !._client = None,
                   !._db = None, !.outcome = "returned"]
    ELSE [d EXCEPT !.outcome = "returned"]

(* The call as the log keeps it *)
Logged(d, op) ==
    [d EXCEPT !.op = op,
              !.log = Append(@, [op |-> op, outcome |-> d.outcome])]

dbFrame ==
    <<settings, fusionVars, serviceVars, evalVars, metricVars, judgeVars,
      ragVars, threads, ingest, run>>

InitDb ==
    /\ settings = DefaultSettings
    /\ vector_results = <<>>
    /\ keyword_results = <<>>
    /\ k_arg = None
    /\ fused_results = <<>>
    /\ prev_fused = <<>>
    /\ calls = 0
    /\ collection = <<>>
    /\ index = EmptyIndex
    /\ call = NoCall
    /\ results = <<>>
    /\ arrived = <<>>
    /\ phase = "start"
    /\ MetricsIdle
    /\ JudgeIdle
    /\ RagIdle
    /\ threads = <<>>
    /\ ingest = <<>>
    /\ run = <<>>
    /\ db = NewDb

Connect ==
    /\ Len(db.log) < MaxDbCalls
    /\ \E driver \in ConnectOutcomes :
         db' = Logged([connect(db, driver) EXCEPT !.value = None], "connect")
    /\ UNCHANGED dbFrame

DbAccess ==
    /\ Len(db.log) < MaxDbCalls
    /\ \E driver \in ConnectOutcomes :
         db' = Logged(db_property(db, driver), "db")
    /\ UNCHANGED dbFrame

Close ==
    /\ Len(db.log) < MaxDbCalls
    /\ db' = Logged([close(db) EXCEPT !.value = None], "close")
    /\ UNCHANGED dbFrame

NextDb ==
    \/ Connect
    \/ DbAccess
    \/ Close

SpecDb == InitDb /\ [][NextDb]_vars

----------------------------------------------------------------------------
(* Evaluation runs over the service: the batch runner                      *)
(* (scripts/run_all_queries.py) and the dashboard runner (app.py)           *)

(* The i-th query of queries.json *)
RunQuery(i) ==
    [question_id |-> QuestionIds[i], question |-> QuestionIds[i],
     gold_answer |-> "gold", gold_doc_ids |-> <<1>>] @@ DefaultCategories

(* load_queries: the query file holds the first n queries, possibly none *)
QueryLists == {[i \in 1..n |-> RunQuery(i)] : n \in 0..Len(QuestionIds)}

(* What the two providers do during the answer to one query *)
ProviderFaults == [embedding_ok : BOOLEAN, generation : GenerationOutcomes]

(* What the store and argsort answer during the search for one query: the  *)
(* ranking of the text search and the ascending order of the similarities  *)
StoreAnswers(idx, coll, question, top_k, mode, cfg) ==
    [ranking : IF mode = "vector" THEN {<<>>}
               ELSE TextRankings(coll, question,
                                 IF mode = "hybrid" THEN cfg.INITIAL_RETRIEVAL_K
                                 ELSE OrDefault(top_k, cfg.DEFAULT_TOP_K)),
     order : IF mode = "keyword" THEN {<<>>}
             ELSE argsort(Similarities(idx, QueryVector(question)))]

(* RAGService.__init__ with the RetrievalService it holds *)
NewService == [index |-> EmptyIndex, vector_index_loaded |-> FALSE]

(* The load of initialize and answer *)
Loaded(service, coll, mode) ==
    IF NeedsLoad(mode, service.vector_index_loaded)
    THEN [index |-> load_vector_index(service.index, coll),
          vector_index_loaded |-> TRUE]
    ELSE service

(* RAGService.initialize(mode) *)
initialize(service, coll, mode) == Loaded(service, coll, mode)

(* RAGService.answer once the index is there: the search and the answer   *)
(* made of its results                                                      *)
SearchAndAnswer(after, question, top_k, mode, fault, store, cfg) ==
    [service |-> after,
     response |->
        answer(question,
               search(after.index,
                      IF mode = "keyword" THEN <<>>
                      ELSE get_embedding(question, fault.embedding_ok),
                      store.order, store.ranking, top_k, mode, cfg).results,
               fault.generation).response]

(* RAGService.answer(question, top_k, mode): the service after the call    *)
(* and the response                                                         *)
rag_answer(service, coll, question, top_k, mode, fault, store, cfg) ==
    SearchAndAnswer(Loaded(service, coll, mode), question, top_k, mode, fault,
                    store, cfg)

(* The fields of the query both runners copy into the record; the clock   *)
(* reads whole milliseconds, which round(.., 2) leaves as they are          *)
QueryFields(query, response, elapsed_ms) ==
    [question_id |-> query.question_id,
     question |-> query.question,
     question_type |-> query.question_type,
     source_dataset |-> query.source_dataset,
     gold_answer |-> query.gold_answer,
     gold_doc_ids |-> query.gold_doc_ids,
     generated_answer |-> response.answer,
     retrieved_doc_ids |-> retrieved_doc_ids(response),
     response_time_ms |-> elapsed_ms]

(* run_all_queries: the record of one query (contents are shorter than     *)
(* the 200 characters of the preview)                                       *)
BatchRunRecord(query, response, elapsed_ms) ==
    QueryFields(query, response, elapsed_ms) @@
    [retrieved_contexts |->
        [i \in 1..Len(response.contexts) |->
            [doc_id |-> response.contexts[i].doc_id,
             score |-> response.contexts[i].score,
             original_source |-> response.contexts[i].original_source,
             content_preview |-> response.contexts[i].content]]]

(* run_evaluation: the record of one query *)
DashboardRecord(query, response, elapsed_ms) ==
    LET hit_ids == HitIds(query.gold_doc_ids, retrieved_doc_ids(response))
        gold_count == Cardinality(ToSet(query.gold_doc_ids))
    IN QueryFields(query, response, elapsed_ms) @@
       [contexts |->
           [i \in 1..Len(response.contexts) |->
               [doc_id |-> response.contexts[i].doc_id,
                score |-> response.contexts[i].score,
                content |-> response.contexts[i].content,
                original_source |-> response.contexts[i].original_source]],
        hit_count |-> Cardinality(hit_ids),
        gold_count |-> gold_count,
        partial_hit |-> <<Cardinality(hit_ids), "/", gold_count>>,
        is_hit |-> Cardinality(hit_ids) > 0]

(* Time one answer takes on the wall clock, in milliseconds *)
AnswerMs == 617

(* What a run is called with *)
RunArgs(runner, coll, top_k, mode, cfg) ==
    [runner |-> runner, coll |-> coll, top_k |-> top_k, mode |-> mode, cfg |-> cfg]

(* The record a runner makes of the response to a query *)
RunRecord(args, query, a) ==
    [service |-> a.service,
     answer |-> a.response.answer,
     result |-> IF args.runner = "cli"
                THEN BatchRunRecord(query, a.response, AnswerMs)
                ELSE DashboardRecord(query, a.response, AnswerMs)]

(* The body of the loop up to the record: rag.answer and the record *)
LoopStep(args, service, query, fault, store) ==
    RunRecord(args, query,
              rag_answer(service, args.coll, query.question, args.top_k,
                         args.mode, fault, store, args.cfg))

(* Variant: a query whose answer is the error text gets no record *)
AppendResult_SkipFailed(prev, step) ==
    [service |-> step.service,
     results |-> IF step.answer = generate_answer("error") THEN prev.results
                 ELSE Append(prev.results, step.result),
     total_ms |-> prev.total_ms + AnswerMs]

(* total_time += elapsed_time; results.append(result) *)
AppendResult(prev, step) ==
    [service |-> step.service,
     results |-> Append(prev.results, step.result),
     total_ms |-> prev.total_ms + AnswerMs]

(* One pass of the loop on the state the earlier passes left *)
LoopPass(args, prev, query, fault, store) ==
    AppendResult(prev, LoopStep(args, prev.service, query, fault, store))

(* The loop over the queries of run_all_queries and run_evaluation, after  *)
(* the first n queries: the service, the records and the time summed        *)
RECURSIVE RunLoop(_, _, _, _, _, _)
RunLoop(args, service, queries, faults, stores, n) ==
    IF n = 0 THEN [service |-> service, results |-> <<>>, total_ms |-> 0]
    ELSE LoopPass(args, RunLoop(args, service, queries, faults, stores, n - 1),
                  queries[n], faults[n], stores[n])

(* run_all_queries.main after the loop: the output file, whose average is  *)
(* 0 for an empty list                                                      *)
BatchOutput(args, loop, timestamp) ==
    [service |-> loop.service, outcome |-> "returned", error |-> "",
     results |-> loop.results,
     file |-> [exists |-> TRUE,
               metadata |->
                  [queries_file |-> "queries.json",
                   total_questions |-> Len(loop.results),
                   top_k |-> args.top_k,
                   retrieval_mode |-> args.mode,
                   total_time_seconds |-> Round2(Frac(loop.total_ms, 1000)),
                   avg_response_time_ms |->
                       IF Len(loop.results) > 0
                       THEN Round2(Frac(loop.total_ms, Len(loop.results)))
                       ELSE Zero,
                   timestamp |-> timestamp],
               results |-> loop.results]]

(* run_all_queries.main after load_queries: initialize, run_all_queries,   *)
(* the output file                                                          *)
run_all_queries_main(args, service, queries, faults, stores, timestamp) ==
    BatchOutput(args,
                RunLoop(args, initialize(service, args.coll, args.mode),
                        queries, faults, stores, Len(queries)),
                timestamp)

(* app.run_evaluation after the loop: the metadata, whose average divides  *)
(* by len(results), and save_results                                        *)
DashboardOutput(args, loop, timestamp) ==
    IF Len(loop.results) = 0
    THEN [service |-> loop.service, outcome |-> "raised",
          error |-> "ZeroDivisionError", results |-> <<>>, file |-> NoFile]
    ELSE [service |-> loop.service, outcome |-> "returned", error |-> "",
          results |-> loop.results,
          file |-> save_results(loop.results,
                                RunMetadata(args.mode, args.top_k, loop.results,
                                            loop.total_ms, timestamp))]

(* app.run_evaluation: initialize, the loop, the metadata and save_results *)
run_evaluation(args, service, queries, faults, stores, timestamp) ==
    DashboardOutput(args,
                    RunLoop(args, initialize(service, args.coll, args.mode),
                            queries, faults, stores, Len(queries)),
                    timestamp)

(* top_k of a run: the default of the command line and of the dashboard,   *)
(* or a smaller number                                                      *)
RunTopKs == {1, DefaultTopK}

(* No run started *)
NoRun ==
    [runner |-> "none", outcome |-> "none", error |-> "", mode |-> "",
     top_k |-> None, queries |-> <<>>, faults |-> <<>>, stores |-> <<>>,
     results |-> <<>>, file |-> NoFile, aggregated |-> FALSE, metrics |-> <<>>]

runFrame ==
    <<settings, fusionVars, collection, call, evalVars, metricVars, judgeVars,
      rag_call, loads, modes_seen, threads, ingest, db>>

InitRun ==
    /\ settings = DefaultSettings
    /\ collection \in RagCollections
    /\ index = EmptyIndex
    /\ call = NoCall
    /\ vector_results = <<>>
    /\ keyword_results = <<>>
    /\ k_arg = None
    /\ fused_results = <<>>
    /\ prev_fused = <<>>
    /\ calls = 0
    /\ results = <<>>
    /\ arrived = <<>>
    /\ phase = "start"
    /\ MetricsIdle
    /\ JudgeIdle
    /\ rag = NewRag
    /\ rag_call = NoRagCall
    /\ loads = 0
    /\ modes_seen = {}
    /\ threads = <<>>
    /\ ingest = <<>>
    /\ db = <<>>
    /\ run = NoRun

(* One run of a runner on a fresh service: the queries, the mode, top_k,   *)
(* what the providers do for each query and what the store answers          *)
RunOf(runner) ==
    /\ run.outcome = "none"
    /\ \E queries \in QueryLists, mode \in Modes, top_k \in RunTopKs,
          timestamp \in Timestamps :
       \E faults \in [1..Len(queries) -> ProviderFaults],
          stores \in [1..Len(queries) ->
                         StoreAnswers(load_vector_index(index, collection),
                                      collection, "qa", top_k, mode, settings)] :
         \E out \in
            {IF runner = "cli"
             THEN run_all_queries_main(
                      RunArgs(runner, collection, top_k, mode, settings),
                      [index |-> index,
                       vector_index_loaded |-> rag.vector_index_loaded],
                      queries, faults, stores, timestamp)
             ELSE run_evaluation(
                      RunArgs(runner, collection, top_k, mode, settings),
                      [index |-> index,
                       vector_index_loaded |-> rag.vector_index_loaded],
                      queries, faults, stores, timestamp)} :
            /\ index' = out.service.index
            /\ rag' = [rag EXCEPT !.vector_index_loaded =
                                      out.service.vector_index_loaded]
            /\ run' = [NoRun EXCEPT !.runner = runner, !.outcome = out.outcome,
                                    !.error = out.error, !.mode = mode,
                                    !.top_k = top_k, !.queries = queries,
                                    !.faults = faults, !.stores = stores,
                                    !.results = out.results, !.file = out.file]
    /\ UNCHANGED runFrame

(* python scripts/run_all_queries.py *)
RunAllQueries == RunOf("cli")

(* The dashboard runs an evaluation *)
RunDashboard == RunOf("dashboard")

(* calculate_metrics on the list the run returned *)
AggregateRun ==
    /\ run.outcome = "returned"
    /\ ~run.aggregated
    /\ run' = [run EXCEPT !.aggregated = TRUE,
                          !.metrics = calculate_metrics(run.results)]
    /\ UNCHANGED <<runFrame, index, rag>>

NextRun ==
    \/ RunAllQueries
    \/ RunDashboard
    \/ AggregateRun

SpecRun == InitRun /\ [][NextRun]_vars

----------------------------------------------------------------------------
(* Helpers of the properties of rrf_fusion *)

Ids(list) == [i \in 1..Len(list) |-> list[i].doc_id]

IdSet(list) == {list[i].doc_id : i \in 1..Len(list)}

Called == calls > 0

(* Sum of 1 / (k + r + 1) over the 0-based positions r < n of doc_id in list *)
RECURSIVE RankSum(_, _, _, _)
RankSum(list, doc_id, k, n) ==
    IF n = 0 THEN Zero
    ELSE IF list[n].doc_id = doc_id
         THEN FracAdd(RankSum(list, doc_id, k, n - 1), Frac(1, k + (n - 1) + 1))
         ELSE RankSum(list, doc_id, k, n - 1)

ReciprocalRankSum(doc_id, k) ==
    FracAdd(RankSum(vector_results, doc_id, k, Len(vector_results)),
            RankSum(keyword_results, doc_id, k, Len(keyword_results)))

(* Position at which doc_id is first seen: the vector list, then the keyword list *)
FirstSeen(doc_id) ==
    LET both == Ids(vector_results) \o Ids(keyword_results)
    IN CHOOSE i \in 1..Len(both) :
          /\ both[i] = doc_id
          /\ \A j \in 1..(i - 1) : both[j] # doc_id

ExampleInputs ==
    /\ Ids(vector_results) = <<2, 1, 3>>
    /\ Ids(keyword_results) = <<1, 3>>
    /\ k_arg = RrfK

----------------------------------------------------------------------------
(* C1: for every integer k >= 0 passed to rrf_fusion, the fused score of    *)
(* each document is the sum over its 0-based positions r in either list of  *)
(* 1 / (k + r + 1), with the k that was passed.                             *)
C1_ScoreIsReciprocalRankSum ==
    (Called /\ k_arg >= 0) =>
        \A i \in 1..Len(fused_results) :
            fused_results[i].score =
                ReciprocalRankSum(fused_results[i].doc_id, k_arg)

(* C2: the output holds each document id of either input list exactly once *)
(* and no other id, in non-increasing order of fused score.                 *)
C2_DistinctIdsSortedByScore ==
    Called =>
        /\ IdSet(fused_results) = IdSet(vector_results) \cup IdSet(keyword_results)
        /\ Injective(Ids(fused_results))
        /\ \A i \in 1..(Len(fused_results) - 1) :
              ~FracLess(fused_results[i].score, fused_results[i + 1].score)

C2_Witness ==
    /\ Called
    /\ Len(fused_results) = NumDocs
    /\ IdSet(vector_results) \cap IdSet(keyword_results) # {}
    /\ \E i \in 1..(Len(fused_results) - 1) :
          /\ FracLess(fused_results[i + 1].score, fused_results[i].score)
          /\ FirstSeen(fused_results[i + 1].doc_id) < FirstSeen(fused_results[i].doc_id)

(* C3 as stated: dense [d2, d1, d3], lexical [d1, d3], k = 60 fuse to       *)
(* d1, d2, d3.                                                              *)
C3_ExampleRankingAsStated ==
    (Called /\ ExampleInputs) => Ids(fused_results) = <<1, 2, 3>>

(* C3 amended: dense [d2, d1, d3], lexical [d1, d3], k = 60 fuse to         *)
(* d1 (1/62 + 1/61), d3 (1/63 + 1/62), d2 (1/61).                           *)
C3_ExampleRanking ==
    (Called /\ ExampleInputs) =>
        /\ Ids(fused_results) = <<1, 3, 2>>
        /\ fused_results[1].score = FracAdd(Frac(1, 62), Frac(1, 61))
        /\ fused_results[2].score = FracAdd(Frac(1, 63), Frac(1, 62))
        /\ fused_results[3].score = Frac(1, 61)

C3_Witness == Called /\ ExampleInputs /\ Len(fused_results) = 3

(* C4: a second call with the same arguments returns the same ordered list, *)
(* and documents of equal fused score appear in first-seen order (vector    *)
(* list first, then keyword list).                                          *)
C4_DeterministicFirstSeenTieBreak ==
    /\ calls >= 2 => fused_results = prev_fused
    /\ Called =>
          \A i, j \in 1..Len(fused_results) :
              (i < j /\ fused_results[i].score = fused_results[j].score) =>
                  FirstSeen(fused_results[i].doc_id) < FirstSeen(fused_results[j].doc_id)

C4_Witness ==
    /\ calls >= 2
    /\ \E i, j \in 1..Len(fused_results) :
          /\ i < j
          /\ fused_results[i].score = fused_results[j].score
          /\ fused_results[i].doc_id \in IdSet(vector_results)
          /\ fused_results[j].doc_id \in IdSet(keyword_results)

(* C5: content and original_source of a fused entry are those of the vector *)
(* entry when the id is in the vector list, and of the keyword entry only   *)
(* when the id is absent from the vector list.                              *)
C5_MetadataFromFirstIntroducer ==
    Called =>
        \A i \in 1..Len(fused_results) :
            LET e == fused_results[i]
                src == IF e.doc_id \in IdSet(vector_results)
                       THEN vector_results[CHOOSE n \in 1..Len(vector_results) :
                                              vector_results[n].doc_id = e.doc_id]
                       ELSE keyword_results[CHOOSE n \in 1..Len(keyword_results) :
                                              keyword_results[n].doc_id = e.doc_id]
            IN /\ e.content = src.content
               /\ e.original_source = src.original_source
               /\ e.retrieval_type = "hybrid"

C5_Witness ==
    /\ Called
    /\ IdSet(vector_results) \cap IdSet(keyword_results) # {}
    /\ IdSet(keyword_results) \ IdSet(vector_results) # {}
    /\ \E i \in 1..Len(fused_results) :
          /\ fused_results[i].doc_id \in IdSet(vector_results) \cap IdSet(keyword_results)
          /\ fused_results[i].content[1] = "vector"

----------------------------------------------------------------------------
(* Helpers of the properties of RetrievalService.search *)

Returned == call.outcome = "returned"

(* top_k after `top_k or settings.DEFAULT_TOP_K` *)
EffectiveTopK == OrDefault(call.top_k, settings.DEFAULT_TOP_K)

Min(a, b) == IF a <= b THEN a ELSE b

(* The query embedding could not be made (empty text or provider error) *)
EmbeddingFailed ==
    call.mode \in {"vector", "hybrid"} /\ (call.query = "" \/ ~call.provider_ok)

(* No document of the store carries an embedding *)
IndexEmpty == \A i \in 1..Len(collection) : collection[i].embedding.null

(* Position of a document in the vector index (insertion order) *)
IndexPosition(doc_id) ==
    CHOOSE n \in 1..Len(index.docs) : index.docs[n].doc_id = doc_id

(* C6: for every mode and every caller top_k >= 1, search returns at most   *)
(* top_k results; the dense search returns exactly min(top_k, indexed       *)
(* documents) when the query is embedded.                                   *)
C6_AtMostTopKResults ==
    (Returned /\ call.top_k >= 1) =>
        /\ Len(call.results) <= call.top_k
        /\ (call.mode = "vector" /\ ~EmbeddingFailed)
               => Len(call.results) = Min(call.top_k, Len(index.docs))

C6_Witness ==
    /\ Returned
    /\ call.top_k = 1
    /\ \/ /\ call.mode = "hybrid"
          /\ Cardinality(IdSet(vector_results) \cup IdSet(keyword_results)) > 1
          /\ Len(call.results) = 1
       \/ /\ call.mode = "vector"
          /\ Len(index.docs) > 1
          /\ Len(call.results) = 1

(* C7 as stated (its part about the returned list): whenever the embedding  *)
(* call fails or no document carries an embedding, the list search returns  *)
(* is empty, in every mode.                                                 *)
C7_EmptyOnDenseFailureAsStated ==
    (Returned /\ (EmbeddingFailed \/ IndexEmpty)) => call.results = <<>>

(* C7 amended: when the embedding call fails or no document carries an      *)
(* embedding, the dense search yields an empty list and never raises; so    *)
(* vector mode returns an empty list, hybrid mode returns the first top_k   *)
(* lexical results (fused), empty only when the lexical search finds        *)
(* nothing, and keyword mode returns the lexical results.                   *)
C7_DenseFailureDegrades ==
    (call.outcome # "none" /\ (EmbeddingFailed \/ IndexEmpty)) =>
        /\ vector_results = <<>>
        /\ call.mode = "vector" => (Returned /\ call.results = <<>>)
        /\ (call.mode = "hybrid" /\ Returned) =>
              /\ Ids(call.results) = Take(Ids(keyword_results), EffectiveTopK)
              /\ (call.results = <<>>) <=> (keyword_results = <<>>)
        /\ (call.mode = "keyword" /\ Returned) => call.results = keyword_results

C7_Witness ==
    /\ Returned
    /\ call.mode = "hybrid"
    /\ call.query # ""
    /\ EmbeddingFailed
    /\ ~IndexEmpty
    /\ call.results # <<>>

(* C8: hybrid mode asks the dense and the lexical search for                *)
(* INITIAL_RETRIEVAL_K results each and returns the first top_k entries of  *)
(* rrf_fusion of the two lists; vector and keyword mode ask their one       *)
(* search for top_k results and return its list unfused.                    *)
C8_HybridWidthAndTruncation ==
    Returned =>
        /\ call.mode = "hybrid" =>
              /\ call.vector_top_k = settings.INITIAL_RETRIEVAL_K
              /\ call.keyword_top_k = settings.INITIAL_RETRIEVAL_K
              /\ call.results =
                    Take(rrf_fusion(vector_results, keyword_results, None, settings),
                         EffectiveTopK)
              /\ \A i \in 1..Len(call.results) :
                    call.results[i].retrieval_type = "hybrid"
        /\ call.mode = "vector" =>
              /\ call.vector_top_k = EffectiveTopK
              /\ call.keyword_top_k = None
              /\ call.results = vector_results
              /\ \A i \in 1..Len(call.results) :
                    call.results[i].retrieval_type = "vector"
        /\ call.mode = "keyword" =>
              /\ call.vector_top_k = None
              /\ call.keyword_top_k = EffectiveTopK
              /\ call.results = keyword_results
              /\ \A i \in 1..Len(call.results) :
                    call.results[i].retrieval_type = "keyword"

C8_Witness ==
    /\ Returned
    /\ call.mode = "hybrid"
    /\ call.top_k >= 1
    /\ call.top_k < settings.INITIAL_RETRIEVAL_K
    /\ Len(vector_results) > call.top_k
    /\ keyword_results # <<>>
    /\ Len(call.results) = call.top_k

(* C9: vector_search returns the top_k highest-scoring indexed documents in *)
(* descending order of similarity, documents of equal similarity in         *)
(* insertion (index) order.                                                 *)
C9_DescendingStableTopK ==
    (Returned /\ call.mode = "vector" /\ ~EmbeddingFailed) =>
        /\ Len(call.results) = Min(EffectiveTopK, Len(index.docs))
        /\ \A i, j \in 1..Len(call.results) :
              i < j =>
                 \/ FracLess(call.results[j].score, call.results[i].score)
                 \/ /\ call.results[j].score = call.results[i].score
                    /\ IndexPosition(call.results[i].doc_id)
                          < IndexPosition(call.results[j].doc_id)
        /\ \A n \in 1..Len(index.docs) :
              index.docs[n].doc_id \notin IdSet(call.results) =>
                 \A i \in 1..Len(call.results) :
                    ~FracLess(call.results[i].score,
                              cosine_similarity(call.query_embedding,
                                                index.embeddings.rows[n]))

----------------------------------------------------------------------------
(* Helpers of the properties of evaluation records *)

HitCountRight(r) ==
    r.hit_count = Cardinality(ToSet(r.gold_doc_ids) \cap ToSet(r.retrieved_doc_ids))

IsHitRight(r) == r.is_hit = (r.hit_count > 0)

HitCountInRange(r) == 0 <= r.hit_count /\ r.hit_count <= r.gold_count

RecordInvariant(r) == HitCountRight(r) /\ IsHitRight(r) /\ HitCountInRange(r)

DerivedKeys == {"hit_count", "gold_count", "is_hit"}

(* C10 as stated: every record an evaluation run creates, and every record  *)
(* calculate_metrics has pre-processed, whether or not it arrived with      *)
(* derived fields, has hit_count = |gold /\ retrieved|, is_hit = (hit_count *)
(* > 0) and 0 <= hit_count <= gold_count.                                   *)
C10_RecordInvariantAsStated ==
    phase \in {"evaluated", "derived"} =>
        \A i \in 1..Len(results) : RecordInvariant(results[i])

(* C10 amended: every record an evaluation run creates has the three        *)
(* properties; calculate_metrics computes exactly the derived fields a      *)
(* record lacks and keeps the ones it arrived with, so a record that        *)
(* arrived without derived fields has the three properties afterwards.      *)
C10_RecordInvariant ==
    /\ phase = "evaluated" =>
          \A i \in 1..Len(results) : RecordInvariant(results[i])
    /\ phase = "derived" =>
          /\ Len(results) = Len(arrived)
          /\ \A i \in 1..Len(results) :
                /\ DerivedKeys \subseteq DOMAIN results[i]
                /\ \A key \in DOMAIN arrived[i] : results[i][key] = arrived[i][key]
                /\ ~Has(arrived[i], "hit_count") => HitCountRight(results[i])
                /\ ~Has(arrived[i], "gold_count") =>
                      results[i].gold_count = Cardinality(ToSet(results[i].gold_doc_ids))
                /\ ~Has(arrived[i], "is_hit") =>
                      results[i].is_hit =
                         (ToSet(results[i].gold_doc_ids)
                             \cap ToSet(results[i].retrieved_doc_ids) # {})
                /\ (DerivedKeys \cap DOMAIN arrived[i] = {})
                      => RecordInvariant(results[i])

C10_Witness ==
    /\ phase = "derived"
    /\ \E i \in 1..Len(results) :
          /\ DerivedKeys \cap DOMAIN arrived[i] = {}
          /\ results[i].hit_count = 1
          /\ results[i].gold_count = 2
          /\ results[i].is_hit

----------------------------------------------------------------------------
(* Helpers of the properties of the reciprocal rank *)

RankCalled == rank_call # <<>>

(* 1/rank of the first occurrence of doc_id in list, 0 when it is absent *)
InverseFirstRank(doc_id, list) ==
    IF \E i \in 1..Len(list) : list[i] = doc_id
    THEN Frac(1, CHOOSE i \in 1..Len(list) :
                    /\ list[i] = doc_id
                    /\ \A j \in 1..(i - 1) : list[j] # doc_id)
    ELSE Zero

(* Sum of InverseFirstRank over the gold ids among the documents 1..n *)
RECURSIVE GoldRankSum(_, _, _)
GoldRankSum(gold, list, n) ==
    IF n = 0 THEN Zero
    ELSE FracAdd(GoldRankSum(gold, list, n - 1),
                 IF n \in gold THEN InverseFirstRank(n, list) ELSE Zero)

(* C11: for a record with a non-empty gold set the reciprocal rank is the   *)
(* average, over the distinct gold ids, of 1/rank of the id's first         *)
(* occurrence in retrieved_doc_ids (0 for an id that is absent): one gold   *)
(* id at rank 3 gives 1/3, one unretrieved gold id gives 0, two gold ids    *)
(* with one at rank 1 and the other absent give 1/2.                        *)
C11_ReciprocalRankIsAverage ==
    RankCalled =>
        LET gold == ToSet(rank_call.gold_doc_ids)
            list == rank_call.retrieved_doc_ids
            average == FracDiv(GoldRankSum(gold, list, NumDocs), Cardinality(gold))
        IN gold # {} =>
              /\ rank_call.rr = average
              /\ rank_call.mrr = average
              /\ (Cardinality(gold) = 1 /\ Len(list) >= 3 /\ list[3] \in gold
                    /\ list[1] \notin gold /\ list[2] \notin gold)
                    => rank_call.rr = <<1, 3>>
              /\ (Cardinality(gold) = 1 /\ gold \cap ToSet(list) = {})
                    => rank_call.rr = <<0, 1>>
              /\ (Cardinality(gold) = 2 /\ Len(list) >= 1 /\ list[1] \in gold
                    /\ Cardinality(gold \cap ToSet(list)) = 1)
                    => rank_call.rr = <<1, 2>>

C11_Witness ==
    /\ RankCalled
    /\ Cardinality(ToSet(rank_call.gold_doc_ids)) = 2
    /\ Len(rank_call.retrieved_doc_ids) = 3
    /\ rank_call.retrieved_doc_ids[1] \in ToSet(rank_call.gold_doc_ids)
    /\ rank_call.retrieved_doc_ids[3] = rank_call.retrieved_doc_ids[1]
    /\ Cardinality(ToSet(rank_call.gold_doc_ids)
                      \cap ToSet(rank_call.retrieved_doc_ids)) = 1
    /\ rank_call.rr = <<1, 2>>

----------------------------------------------------------------------------
(* Helpers of the properties of the aggregates *)

MetricsComputed == metrics # <<>>

GroupedComputed == grouped # <<>>

Reported == report # <<>>

(* A fraction in the closed interval [0, 1] *)
InUnit(x) == 0 <= x[1] /\ x[1] <= x[2]

(* |gold /\ retrieved| and |gold| summed over the records *)
TotalHitDocs ==
    Sum([i \in 1..Len(results) |->
            Cardinality(ToSet(results[i].gold_doc_ids)
                           \cap ToSet(results[i].retrieved_doc_ids))])

TotalGoldDocs ==
    Sum([i \in 1..Len(results) |-> Cardinality(ToSet(results[i].gold_doc_ids))])

MicroAverage ==
    IF TotalGoldDocs > 0 THEN Frac(TotalHitDocs, TotalGoldDocs) ELSE <<0, 1>>

(* x has at most four decimals and is within half a unit of the fourth      *)
(* decimal of y                                                             *)
RoundedTo4(x, y) ==
    LET diff == x[1] * y[2] - y[1] * x[2]
    IN /\ 10000 % x[2] = 0
       /\ diff * 20000 <= x[2] * y[2]
       /\ (0 - diff) * 20000 <= x[2] * y[2]

(* The groups of one dimension of the grouped aggregates *)
GroupsInUnit(groups) ==
    \A k \in DOMAIN groups : InUnit(groups[k].partial_hit_rate) /\ InUnit(groups[k].mrr)

C13_MicroAverageAsStated ==
    /\ MetricsComputed => metrics.partial_hit_rate = MicroAverage
    /\ Reported => report.summary.partial_hit_rate = MicroAverage

(* C13 amended: the dashboard aggregates (ungrouped and the "total"         *)
(* partition) hold exactly the sum of hit_count over the sum of gold_count, *)
(* 0 without gold documents; the report of the metrics script holds that    *)
(* quotient rounded to four decimals.                                       *)
C13_MicroAverage ==
    /\ MetricsComputed => metrics.partial_hit_rate = MicroAverage
    /\ GroupedComputed => grouped.total.partial_hit_rate = MicroAverage
    /\ Reported =>
          /\ RoundedTo4(report.summary.partial_hit_rate, MicroAverage)
          /\ TotalGoldDocs = 0 => report.summary.partial_hit_rate = <<0, 1>>

C13_Witness ==
    /\ MetricsComputed
    /\ GroupedComputed
    /\ Len(results) = 2
    /\ TotalHitDocs = 1
    /\ TotalGoldDocs = 3
    /\ results[1].hit_count = results[1].gold_count

(* C14 as stated: llm_pass_rate is the number of records with is_pass true  *)
(* over the number of records that carry is_pass, None when no record       *)
(* carries it.                                                              *)
C14_PassRateOverJudged ==
    MetricsComputed =>
        LET judged == {i \in 1..Len(results) : Has(results[i], "is_pass")}
            passed == {i \in judged : results[i].is_pass}
        IN IF judged = {} THEN metrics.llm_pass_rate = NoneRate
           ELSE metrics.llm_pass_rate = Frac(Cardinality(passed), Cardinality(judged))

(* The question counts of the groups of one dimension *)
Counts(groups, field) == [k \in DOMAIN groups |-> groups[k][field]]

(* The groups of one dimension partition the records: the group of a value  *)
(* counts exactly the records with that value, "unknown" those without one  *)
CountsPartition(counts, key) ==
    /\ DOMAIN counts = {Get(results[i], key, "unknown") : i \in 1..Len(results)}
    /\ \A k \in DOMAIN counts :
          counts[k] =
             Cardinality({i \in 1..Len(results) : Get(results[i], key, "unknown") = k})

(* Sum of the values of a function over the keys given *)
RECURSIVE CountSum(_, _)
CountSum(counts, keys) ==
    IF keys = {} THEN 0
    ELSE LET k == CHOOSE x \in keys : TRUE
         IN counts[k] + CountSum(counts, keys \ {k})

GroupTotal(counts) == CountSum(counts, DOMAIN counts)

(* C15: for source_dataset and question_type, grouped aggregation puts      *)
(* every record in exactly one group, a record without the category in the  *)
(* group "unknown", and the group counts add up to the ungrouped            *)
(* total_questions.                                                         *)
C15_GroupsPartitionRecords ==
    /\ GroupedComputed =>
          LET by_source == Counts(grouped.by_source, "total")
              by_type == Counts(grouped.by_type, "total")
          IN /\ CountsPartition(by_source, "source_dataset")
             /\ CountsPartition(by_type, "question_type")
             /\ GroupTotal(by_source) = Len(results)
             /\ GroupTotal(by_type) = Len(results)
             /\ grouped.total.total = Len(results)
             /\ MetricsComputed => metrics.total_questions = Len(results)
    /\ Reported =>
          LET by_source == Counts(report.by_source, "total_questions")
              by_type == Counts(report.by_question_type, "total_questions")
          IN /\ CountsPartition(by_source, "source_dataset")
             /\ CountsPartition(by_type, "question_type")
             /\ GroupTotal(by_source) = report.summary.total_questions
             /\ GroupTotal(by_type) = report.summary.total_questions
             /\ report.summary.total_questions = Len(results)

C15_Witness ==
    /\ GroupedComputed
    /\ MetricsComputed
    /\ Len(results) = 2
    /\ ~Has(results[1], "source_dataset")
    /\ Has(results[2], "source_dataset")
    /\ ~Has(results[2], "question_type")
    /\ DOMAIN grouped.by_source = {"unknown", "drcd"}
    /\ grouped.by_source["unknown"].total = 1

(* The rates of a partition equal those calculate_metrics gives its records *)
SameAggregation(partition, records) ==
    LET m == calculate_metrics(records)
    IN /\ partition.hit_rate = m.hit_rate
       /\ partition.partial_hit_rate = m.partial_hit_rate
       /\ partition.mrr = m.mrr

(* C16 as stated: the "total" partition of calculate_grouped_metrics has    *)
(* the hit_rate, partial_hit_rate and mrr that calculate_metrics returns    *)
(* for the batch, and each group has the values calculate_metrics gives     *)
(* for the records of that group alone.                                     *)
C16_GroupedSameAsUngrouped ==
    (GroupedComputed /\ MetricsComputed) =>
        /\ grouped.total.hit_rate = metrics.hit_rate
        /\ grouped.total.partial_hit_rate = metrics.partial_hit_rate
        /\ grouped.total.mrr = metrics.mrr
        /\ \A k \in DOMAIN grouped.by_source :
              SameAggregation(grouped.by_source[k],
                              GroupBy(results, "source_dataset")[k])
        /\ \A k \in DOMAIN grouped.by_type :
              SameAggregation(grouped.by_type[k],
                              GroupBy(results, "question_type")[k])

----------------------------------------------------------------------------
(* Properties of the judgment passes and of the results file *)

ScriptJudged == replies # <<>> /\ replies.pass = "evaluate_all"

DashboardJudged == replies # <<>> /\ replies.pass = "run_llm_evaluation"

(* The judgment a failed request leaves: not passed, and a marker with text *)
FailureMarked(outcome, is_pass, llm_judgment) ==
    outcome.raised => (~is_pass /\ TextLen(llm_judgment) > 0)

(* C17: when the judgment provider raises for a record, the record gets     *)
(* is_pass = FALSE and a non-empty error marker as llm_judgment, and the    *)
(* pass, in the script as in the dashboard, still ends with one judged      *)
(* record for each input record, in the order of the input.                 *)
C17_ProviderFailureContained ==
    /\ ScriptJudged =>
          /\ Len(evaluated) = Len(replies.outcomes)
          /\ Len(evaluated) = Len(result_file.results)
          /\ \A i \in 1..Len(evaluated) :
                /\ evaluated[i].question_id = result_file.results[i].question_id
                /\ FailureMarked(replies.outcomes[i], evaluated[i].is_pass,
                                 evaluated[i].llm_judgment)
    /\ DashboardJudged =>
          /\ Len(results) = Len(replies.outcomes)
          /\ Len(results) = Len(arrived)
          /\ \A i \in 1..Len(results) :
                /\ results[i].question_id = arrived[i].question_id
                /\ FailureMarked(replies.outcomes[i], results[i].is_pass,
                                 results[i].llm_judgment)

(* The provider raised with an empty message for the first record and      *)
(* answered Pass for the second, in the script                              *)
C17_Witness ==
    /\ ScriptJudged
    /\ Len(evaluated) = 2
    /\ replies.outcomes[1].raised
    /\ replies.outcomes[1].error = ""
    /\ evaluated[1].llm_judgment = "Error: "
    /\ ~replies.outcomes[2].raised
    /\ evaluated[2].is_pass

JudgmentFields == {"is_pass", "llm_judgment"}

RetrievalFields ==
    {"gold_doc_ids", "retrieved_doc_ids", "hit_count", "gold_count", "is_hit",
     "response_time_ms"}

(* Every field but the two judgment fields is the same before and after *)
OnlyJudgmentChanged(before, after) ==
    /\ Len(after) = Len(before)
    /\ \A i \in 1..Len(before) :
          /\ DOMAIN after[i] \ JudgmentFields = DOMAIN before[i] \ JudgmentFields
          /\ \A key \in DOMAIN before[i] \ JudgmentFields :
                after[i][key] = before[i][key]

(* C18: the judgment pass of the dashboard and the merge of the judgment   *)
(* file by question_id change only is_pass and llm_judgment of a record,   *)
(* every retrieval field stays as it was, and merging the same judgment    *)
(* file a second time gives the records of the first merge.                *)
C18_EnrichmentFrame ==
    /\ phase = "judged" => OnlyJudgmentChanged(arrived, results)
    /\ phase = "loaded" =>
          /\ OnlyJudgmentChanged(result_file.results, results)
          /\ LET once == MergeJudgments(result_file.results, eval_file)
             IN MergeJudgments(once, eval_file) = once

(* A failed judgment of the file was merged into a record that holds every *)
(* retrieval field                                                          *)
C18_Witness ==
    /\ phase = "loaded"
    /\ eval_file.exists
    /\ results # result_file.results
    /\ RetrievalFields \subseteq DOMAIN results[1]
    /\ Has(results[1], "is_pass")
    /\ results[1].llm_judgment = "Error: timeout"
    /\ ~Has(result_file.results[1], "is_pass")

MetadataFields == {"mode", "top_k", "timestamp", "total_time_seconds"}

(* C19: the results file keeps the metadata the evaluation run wrote       *)
(* (mode, top_k, timestamp, total time) after the judgment pass of the     *)
(* dashboard has rewritten it.                                              *)
C19_MetadataKept ==
    result_file.exists => MetadataFields \subseteq DOMAIN result_file.metadata

----------------------------------------------------------------------------
(* Properties of the index loading of RAGService *)

(* The latest call searched the dense index: a vector or hybrid search that *)
(* got past the load                                                        *)
DenseSearched ==
    /\ rag_call.op \in {"retrieve", "answer"}
    /\ rag_call.mode \in {"vector", "hybrid"}
    /\ \/ rag_call.outcome = "returned"
       \/ rag_call.mode = "hybrid" /\ rag.vector_index_loaded

(* C20: over any sequence of initialize, retrieve and answer calls in any  *)
(* modes on one RAGService the store is read for the embeddings            *)
(* (get_all_with_embeddings) at most once, a vector or hybrid search ranks *)
(* only after that read, over the documents it returned, and a sequence of *)
(* keyword calls only never reads them.                                     *)
C20_IndexLoadedOnce ==
    /\ loads <= 1
    /\ rag.vector_index_loaded => (index.index_loaded /\ loads = 1)
    /\ DenseSearched =>
          /\ loads = 1
          /\ index.index_loaded
          /\ index.docs = SelectSeq(get_all_with_embeddings(collection),
                                    LAMBDA d : Len(d.embedding.vec) > 0)
    /\ modes_seen \subseteq {"keyword"} => (loads = 0 /\ ~index.index_loaded)

(* A keyword call, then a call of each dense mode, the last one an answer   *)
(* with retrieved contexts                                                  *)
C20_Witness ==
    /\ modes_seen = Modes
    /\ loads = 1
    /\ rag_call.op = "answer"
    /\ rag_call.mode = "vector"
    /\ rag_call.outcome = "returned"
    /\ Len(call.results) > 0

----------------------------------------------------------------------------
(* Properties of concurrent use of the vector index *)

(* The document sequence and the embedding matrix of the index line up *)
Aligned(idx) ==
    IF idx.embeddings.null THEN Len(idx.docs) = 0
    ELSE /\ Len(idx.docs) = Len(idx.embeddings.rows)
         /\ \A i \in 1..Len(idx.docs) :
               idx.embeddings.rows[i] = idx.docs[i].embedding.vec

(* The document of each result carries the score of its own embedding *)
OwnScores(found) ==
    \A n \in 1..Len(found) :
       \E i \in 1..Len(collection) :
          /\ collection[i].doc_id = found[n].doc_id
          /\ ~collection[i].embedding.null
          /\ found[n].score = cosine_similarity(QueryVector("q1"),
                                                collection[i].embedding.vec)

(* C21: when several threads call vector_search or load_vector_index on a  *)
(* service whose index is not loaded, the index is built once, a loaded    *)
(* index has as many documents as rows, row i being the embedding of       *)
(* document i, and no search indexes past the document list or returns a   *)
(* document with the score of another.                                      *)
C21_BuiltOnceConsistentSnapshot ==
    /\ loads <= 1
    /\ index.index_loaded => Aligned(index)
    /\ \A t \in Threads :
          /\ threads[t].outcome # "IndexError"
          /\ threads[t].outcome = "returned" => OwnScores(threads[t].results)

----------------------------------------------------------------------------
(* Properties of ingestion and of the index built from the store *)

Ingested == ingest.op = "ingest_corpus" /\ Len(ingest.batch) > 0

(* The positions of the batch that hold this doc_id *)
PositionsOf(documents, doc_id) ==
    {p \in 1..Len(documents) : documents[p].doc_id = doc_id}

(* C22: a document whose embedding generation failed is handed to the      *)
(* store with a null embedding, never a zero or empty vector, and its       *)
(* doc_id is in the store afterwards; a loaded index holds only documents   *)
(* with a non-empty embedding, row i of the matrix being the embedding of   *)
(* document i; vector_search returns no document without an embedding.      *)
C22_MissingEmbeddingIsAbsence ==
    /\ Ingested =>
          \A p \in ingest.failed :
             LET doc == ingest.batch[p]
             IN /\ doc.embedding = NullEmbedding
                /\ doc.doc_id \in StoreIds(collection)
                /\ (doc.doc_id \notin StoreIds(ingest.before)
                      /\ PositionsOf(ingest.batch, doc.doc_id) \subseteq ingest.failed)
                     => \E i \in 1..Len(collection) : collection[i] = doc
    /\ index.index_loaded =>
          /\ Aligned(index)
          /\ \A i \in 1..Len(index.docs) :
                /\ ~index.docs[i].embedding.null
                /\ Len(index.docs[i].embedding.vec) > 0
    /\ (call.mode = "vector" /\ call.outcome = "returned") =>
          \A n \in 1..Len(call.results) :
             \E i \in 1..Len(collection) :
                /\ collection[i].doc_id = call.results[n].doc_id
                /\ ~collection[i].embedding.null

(* An ingestion in which one batch of embeddings failed and one did not,   *)
(* then a search that returned the embedded document                        *)
C22_Witness ==
    /\ Ingested
    /\ ingest.outcome = "returned"
    /\ ingest.failed # {}
    /\ \E i \in 1..Len(collection) : collection[i].embedding.null
    /\ index.index_loaded
    /\ Len(index.docs) = 1
    /\ call.mode = "vector"
    /\ call.outcome = "returned"
    /\ Len(call.results) = 1

InsertCalled == ingest.op = "insert_many"

(* A document of the batch that conflicts with nothing: its doc_id is not  *)
(* in the store and comes once in the batch                                 *)
ConflictFree(p) ==
    /\ ingest.batch[p].doc_id \notin StoreIds(ingest.before)
    /\ PositionsOf(ingest.batch, ingest.batch[p].doc_id) = {p}

(* C24: insert_many returns instead of raising when documents of the batch *)
(* conflict on doc_id; the value returned is the number of documents       *)
(* inserted, every document that conflicts with nothing is inserted,       *)
(* whatever its position relative to the conflicting ones, and an empty    *)
(* batch returns 0 without a request to the store.                          *)
C24_InsertManyPartialWrite ==
    InsertCalled =>
       /\ ingest.outcome = "returned"
       /\ ingest.returned = Len(collection) - Len(ingest.before)
       /\ SubSeq(collection, 1, Len(ingest.before)) = ingest.before
       /\ \A p \in 1..Len(ingest.batch) :
             ConflictFree(p) =>
                \E i \in (Len(ingest.before) + 1)..Len(collection) :
                   collection[i] = ingest.batch[p]
       /\ Len(ingest.batch) = 0 =>
             (ingest.returned = 0 /\ ~ingest.touched /\ collection = ingest.before)

(* The first document of the batch conflicts with the store, the second    *)
(* one does not and is inserted                                             *)
C24_Witness ==
    /\ InsertCalled
    /\ ingest.unique_index
    /\ Len(ingest.batch) = 2
    /\ ingest.batch[1].doc_id \in StoreIds(ingest.before)
    /\ ConflictFree(2)
    /\ ingest.returned = 1
    /\ collection[Len(collection)] = ingest.batch[2]

----------------------------------------------------------------------------
(* Properties of RAGService.answer *)

AnswerReturned == rag_call.op = "answer" /\ rag_call.outcome = "returned"

(* C25: answer returns the fixed "no relevant information" answer with an  *)
(* empty contexts list and without a call of the generation provider       *)
(* exactly when the search returned nothing; otherwise it calls the        *)
(* provider once and its contexts are the retrieved list, so               *)
(* retrieved_doc_ids is the doc ids of the search in rank order.            *)
C25_FallbackOnlyWithoutContexts ==
    AnswerReturned =>
       /\ rag_call.generations = 0 <=> call.results = <<>>
       /\ rag_call.response.answer = NoAnswer <=> call.results = <<>>
       /\ call.results = <<>> => rag_call.response.contexts = <<>>
       /\ call.results # <<>> =>
             /\ rag_call.generations = 1
             /\ rag_call.response.contexts = call.results
       /\ retrieved_doc_ids(rag_call.response) = Ids(call.results)
       /\ rag_call.response.query = call.query

(* The generation provider failed on a hybrid answer with a context        *)
C25_Witness ==
    /\ AnswerReturned
    /\ rag_call.mode = "hybrid"
    /\ Len(call.results) > 0
    /\ rag_call.generations = 1
    /\ rag_call.response.answer = "generation error"
    /\ retrieved_doc_ids(rag_call.response) = <<1>>

----------------------------------------------------------------------------
(* Properties of rrf_fusion under exchange of its lists *)

(* rrf_fusion with the keyword list passed as vector_results and the       *)
(* vector list as keyword_results                                           *)
SwappedFusion == rrf_fusion(keyword_results, vector_results, k_arg, settings)

(* C26: exchanging the two input lists of rrf_fusion leaves the set of     *)
(* output document ids and the fused score of every document unchanged;    *)
(* metadata and the order among documents of equal score may differ.       *)
C26_SwapKeepsIdsAndScores ==
    Called =>
       /\ IdSet(SwappedFusion) = IdSet(fused_results)
       /\ Len(SwappedFusion) = Len(fused_results)
       /\ \A i \in 1..Len(fused_results), j \in 1..Len(SwappedFusion) :
             fused_results[i].doc_id = SwappedFusion[j].doc_id
                => fused_results[i].score = SwappedFusion[j].score

(* A document of both lists at different ranks: the exchange changes its   *)
(* metadata and the order of the output, not its score                      *)
C26_Witness ==
    /\ Called
    /\ Len(fused_results) >= 2
    /\ Ids(SwappedFusion) # Ids(fused_results)
    /\ \E i \in 1..Len(vector_results), j \in 1..Len(keyword_results) :
          /\ vector_results[i].doc_id = keyword_results[j].doc_id
          /\ i # j
    /\ \E i \in 1..Len(fused_results), j \in 1..Len(SwappedFusion) :
          /\ fused_results[i].doc_id = SwappedFusion[j].doc_id
          /\ fused_results[i].content # SwappedFusion[j].content

----------------------------------------------------------------------------
(* Reciprocal rank against the hit fields *)

(* a <= b for fractions of positive denominator *)
FracLeq(a, b) == a[1] * b[2] <= b[1] * a[2]

(* The reciprocal rank of one record *)
RecordRR(r) ==
    calculate_reciprocal_rank(ToSet(Get(r, "gold_doc_ids", <<>>)),
                              Get(r, "retrieved_doc_ids", <<>>))

(* hit_count / gold_count of one record, 0 without gold documents *)
HitFraction(r) ==
    IF r.gold_count > 0 THEN Frac(r.hit_count, r.gold_count) ELSE Zero

(* The derived fields of the record are those of its two id lists *)
FreshDerived(r) ==
    LET hit_ids == HitIds(r.gold_doc_ids, r.retrieved_doc_ids)
    IN /\ r.hit_count = Cardinality(hit_ids)
       /\ r.gold_count = Cardinality(ToSet(r.gold_doc_ids))
       /\ r.is_hit = (Cardinality(hit_ids) > 0)

(* C27: the reciprocal rank of a record is positive exactly when its       *)
(* hit_count is, and is at most hit_count / gold_count; for a non-empty     *)
(* batch with fresh derived fields mrr <= hit_rate and mrr <= the mean of   *)
(* the per-record hit fractions.                                            *)
C27_ReciprocalRankBelowHits ==
    (MetricsComputed /\ \A i \in 1..Len(results) : FreshDerived(results[i])) =>
       /\ \A i \in 1..Len(results) :
             /\ (RecordRR(results[i])[1] > 0) <=> (results[i].hit_count > 0)
             /\ FracLeq(RecordRR(results[i]), HitFraction(results[i]))
       /\ FracLeq(metrics.mrr, metrics.hit_rate)
       /\ FracLeq(metrics.mrr,
                  FracDiv(FractionSum(results, Len(results)), Len(results)))

(* A batch with a record whose single hit is at rank 2 of two gold         *)
(* documents (rr 1/4 below the hit fraction 1/2) and a record without hit   *)
C27_Witness ==
    /\ MetricsComputed
    /\ \A i \in 1..Len(results) : FreshDerived(results[i])
    /\ \E i \in 1..Len(results) :
          /\ results[i].hit_count = 1
          /\ results[i].gold_count = 2
          /\ RecordRR(results[i]) = <<1, 2>>
    /\ \E i \in 1..Len(results) :
          /\ results[i].hit_count = 0
          /\ results[i].gold_count > 0
          /\ RecordRR(results[i]) = Zero
    /\ FracLess(metrics.mrr, metrics.hit_rate)

----------------------------------------------------------------------------
(* The top_k search works with *)

(* The number of results the call was run for: what the one search of      *)
(* vector and keyword mode was asked for                                    *)
AskedTopK ==
    IF call.mode = "vector" THEN call.vector_top_k ELSE call.keyword_top_k

(* C28: search replaces a top_k of None or 0 by DEFAULT_TOP_K (5 unless    *)
(* the environment sets it) before any retrieval, in all three modes, and   *)
(* uses a positive top_k unchanged; a caller asking for 0 results receives  *)
(* up to DEFAULT_TOP_K results.                                             *)
C28_ZeroTopKIsDefault ==
    Returned =>
       LET top_k == IF call.top_k = None \/ call.top_k = 0
                    THEN settings.DEFAULT_TOP_K
                    ELSE call.top_k
       IN /\ DefaultSettings.DEFAULT_TOP_K = 5
          /\ call.mode \in {"vector", "keyword"} => AskedTopK = top_k
          /\ call.mode = "hybrid" =>
                call.results =
                   Take(rrf_fusion(vector_results, keyword_results, None, settings),
                        top_k)
          /\ Len(call.results) <= top_k
          /\ (call.mode = "vector" /\ ~EmbeddingFailed)
                => Len(call.results) = Min(top_k, Len(index.docs))

(* A caller asking for 0 results of a store of two documents receives      *)
(* DEFAULT_TOP_K of them                                                    *)
C28_Witness ==
    /\ Returned
    /\ call.top_k = 0
    /\ call.mode = "vector"
    /\ ~EmbeddingFailed
    /\ Len(index.docs) > settings.DEFAULT_TOP_K
    /\ AskedTopK = settings.DEFAULT_TOP_K
    /\ Len(call.results) = settings.DEFAULT_TOP_K

----------------------------------------------------------------------------
(* Properties of the connection singleton *)

(* The last call raised *)
DbRaised == db.op # "none" /\ db.outcome = "raised"

(* C29: when connect() fails the singleton is left disconnected (no        *)
(* client, no database handle), so a later connect() or db access tries    *)
(* again and db never hands out the handle of a client whose ping did not   *)
(* succeed; after close() the next db access connects anew.                 *)
C29_FailedConnectLeavesDisconnected ==
    /\ DbRaised => (db._client = None /\ db._db = None)
    /\ (db.op = "db" /\ db.outcome = "returned") =>
          /\ db.value \in db.verified
          /\ db.value \notin db.closed

(* The part that holds: close() leaves no client and no handle, and a db   *)
(* access never returns the handle of a closed client                       *)
C29_CloseDisconnects ==
    /\ db.op = "close" => (db._client = None /\ db._db = None)
    /\ (db.op = "db" /\ db.outcome = "returned") => db.value \notin db.closed

----------------------------------------------------------------------------
(* Properties of the evaluation runs *)

RunEnded == run.runner # "none"

(* Both provider calls of the query succeeded *)
OwnCallsSucceeded(fault) == fault.embedding_ok /\ fault.generation # "error"

(* The providers as they were for query i and without failure for the      *)
(* other queries                                                            *)
NoOtherFailed(faults, i) ==
    [j \in 1..Len(faults) |->
        IF j = i \/ OwnCallsSucceeded(faults[j]) THEN faults[j]
        ELSE [embedding_ok |-> TRUE, generation |-> "answer"]]

(* The records of the same run (same queries, mode, top_k, store answers)  *)
(* on a fresh service with these provider outcomes                          *)
RecordsWith(faults) ==
    LET args == RunArgs(run.runner, collection, run.top_k, run.mode, settings)
    IN RunLoop(args, initialize(NewService, collection, run.mode), run.queries,
               faults, run.stores, Len(run.queries)).results

(* C23: whatever the embedding and the generation provider do for each     *)
(* query of a batch evaluation run, the run does not abort: it returns and  *)
(* persists exactly one record per query, in the order of the queries, and  *)
(* the record of a query whose own calls succeeded is the record it has     *)
(* when no other query fails.                                               *)
C23_ProviderFailuresContained ==
    (RunEnded /\ (run.runner = "cli" \/ run.queries # <<>>)) =>
       /\ run.outcome = "returned"
       /\ Len(run.results) = Len(run.queries)
       /\ \A i \in 1..Len(run.results) :
             /\ run.results[i].question_id = run.queries[i].question_id
             /\ OwnCallsSucceeded(run.faults[i]) =>
                   run.results[i] = RecordsWith(NoOtherFailed(run.faults, i))[i]
       /\ run.file.exists
       /\ run.file.results = run.results

(* A hybrid run of two queries: both providers fail for the first, whose   *)
(* record carries the error text over the lexical results; the second is    *)
(* answered from its contexts                                               *)
C23_Witness ==
    /\ RunEnded
    /\ run.mode = "hybrid"
    /\ Len(run.queries) = 2
    /\ ~run.faults[1].embedding_ok
    /\ run.faults[1].generation = "error"
    /\ run.results[1].retrieved_doc_ids # <<>>
    /\ run.results[1].generated_answer = generate_answer("error")
    /\ OwnCallsSucceeded(run.faults[2])
    /\ run.results[2].retrieved_doc_ids # <<>>
    /\ run.results[2].generated_answer = generate_answer(run.faults[2].generation)
    /\ run.results[2] = RecordsWith(NoOtherFailed(run.faults, 2))[2]
    /\ run.results[1] # RecordsWith(NoOtherFailed(run.faults, 2))[1]

(* C30: an evaluation run over an empty query list terminates normally     *)
(* (no division by zero), yields an empty list and persists it, with the    *)
(* batch runner and with the dashboard runner; aggregating the empty batch  *)
(* returns without raising.                                                 *)
C30_EmptyRunTerminates ==
    (RunEnded /\ run.queries = <<>>) =>
       /\ run.outcome = "returned"
       /\ run.results = <<>>
       /\ run.file.exists
       /\ run.file.results = <<>>
       /\ run.aggregated => run.metrics = <<>>

(* The part that holds: the batch runner on an empty query list writes a   *)
(* file without records and an average of 0, and the aggregate of an empty  *)
(* batch is the empty dict                                                  *)
C30_BatchRunnerEmptyRun ==
    (RunEnded /\ run.queries = <<>> /\ run.runner = "cli") =>
       /\ run.outcome = "returned"
       /\ run.results = <<>>
       /\ run.file.exists
       /\ run.file.results = <<>>
       /\ run.file.metadata.avg_response_time_ms = Zero
       /\ run.aggregated => run.metrics = <<>>

====
